---- MODULE Spec2Model ----
(***************************************************************************)
(* castella-skia-core: the painter's style/state stack, the surface and    *)
(* its thread-local GPU context slot, the image cache, the typeface and    *)
(* emoji caches with text segmentation, and parse_color.                   *)
(*                                                                         *)
(* Independent parts of the crate are modelled, each with its own          *)
(* specifications over the same variables:                                 *)
(*   SpecPainter         painter.rs  SkiaPainter save/restore/set_style    *)
(*   SpecPainterDrift    painter.rs  the same with font sizes 0.0008 apart *)
(*   SpecSurface         surface.rs  Surface lifecycle and GL_CONTEXT      *)
(*   SpecSurfaceCurrent  surface.rs  the same, platform context current    *)
(*   SpecSurfaceThreads  surface.rs  GPU surfaces on two threads           *)
(*   SpecImage           image.rs    load_image/clear_image_cache, 2 callers *)
(*   SpecImageSeq        image.rs    the same code with a single caller    *)
(*   SpecTypeface        font.rs     create_typeface, 2 callers            *)
(*   SpecTypefaceSeq     font.rs     create_typeface, a single caller      *)
(*   SpecText            font.rs     segment_text_by_font, 2 callers       *)
(*   SpecTextSeq         font.rs     segment_text_by_font, a single caller *)
(*   SpecLocks           image.rs, font.rs  the three cache locks together *)
(*   SpecColor           types.rs    parse_color on hexadecimal strings    *)
(*   SpecColorAny        types.rs    parse_color on arbitrary strings      *)
(*   SpecDraw            painter.rs  set_style and the rectangle/circle draws *)
(***************************************************************************)
EXTENDS Integers, Sequences, FiniteSets, TLC

VARIABLES
    \* ---- painter.rs: struct SkiaPainter and the canvas of its surface
    current_style,   \* SkiaPainter.current_style
    current_font,    \* SkiaPainter.current_font
    state_stack,     \* SkiaPainter.state_stack : Vec<PainterState>
    canvas_saves,    \* native saves outstanding on surface.canvas()
    \* ---- observers of the painter's call sequence (not program state)
    base_saves,      \* canvas_saves when the current painter was constructed
    last_op,         \* name of the most recent painter call
    seq_phase,       \* progress through save(); set_style(S2); restore()
    seq_held,        \* style/font held immediately before that save(), and S2
    \* ---- surface.rs: Surface objects and the thread-local GL_CONTEXT
    surfaces,        \* live Surface objects, by handle
    gl_context,      \* GL_CONTEXT, one cell per thread
    ctx_made,        \* DirectContexts constructed so far, per thread
    ctx_live,        \* DirectContexts not yet destroyed
    platform,        \* the platform GL context of each thread
    disk,            \* files written by save_png
    ret,             \* the most recent Surface call and what it returned
    \* ---- observer of the surface call sequence (not program state)
    dropped,         \* contexts of the surfaces dropped since the thread's last creation
    \* ---- image.rs: IMAGE_CACHE, its mutex, the image files, the callers
    image_cache,     \* IMAGE_CACHE contents: Option<HashMap<String, Image>>
    image_lock,      \* holder of the IMAGE_CACHE mutex
    files,           \* content of the image files on disk
    pc,              \* position of each caller inside load_image/clear_image_cache
    call,            \* arguments and locals of each caller's current call
    result,          \* what each caller's last finished call returned
    \* ---- observers of the image call sequence (not program state)
    pinned,          \* image cached by the first successful cached load since a clear
    overwritten,     \* paths whose pinned entry a later insert replaced
    recached,        \* paths emptied by the last clear and not yet looked up again
    writes,          \* number of file changes made by the environment
    stale,           \* paths whose cache entry was read from the file before a clear
    \* ---- font.rs: TYPEFACE_CACHE, its mutex, the callers of create_typeface
    typeface_cache,  \* TYPEFACE_CACHE contents: Option<HashMap<String, Typeface>>
    typeface_lock,   \* holder of the TYPEFACE_CACHE mutex
    tpc,             \* position of each caller inside create_typeface
    tcall,           \* arguments and locals of each caller's create_typeface call
    tresult,         \* what each caller's last create_typeface returned
    \* ---- observer of the create_typeface calls (not program state)
    first_typeface,  \* per key, the first typeface a create_typeface call returned
    \* ---- font.rs: EMOJI_TYPEFACE_CACHE, its mutex, callers of segment_text_by_font
    emoji_cache,     \* EMOJI_TYPEFACE_CACHE contents: Option<Option<Typeface>>
    emoji_lock,      \* holder of the EMOJI_TYPEFACE_CACHE mutex
    spc,             \* position of each caller inside segment_text_by_font
    scall,           \* arguments and locals of each caller's segment_text_by_font
    sresult,         \* what each caller's last segment_text_by_font returned
    \* ---- observer of the emoji lookups (not program state)
    emoji_lookups,   \* match_family_style_character calls made by get_emoji_typeface
    \* ---- types.rs: parse_color and the string it is given
    color_str,       \* argument of parse_color, a sequence of characters
    color_out,       \* what parse_color returned for color_str, once called
    \* ---- painter.rs: what the painter's last drawing operation sent to the canvas
    canvas_draws     \* sequence of canvas draw calls of the last fill_*/stroke_*

painterVars == <<current_style, current_font, state_stack, canvas_saves,
                 base_saves, last_op, seq_phase, seq_held>>
surfaceVars == <<surfaces, gl_context, ctx_made, ctx_live, platform, disk, ret,
                 dropped>>
imageVars   == <<image_cache, image_lock, files, pc, call, result,
                 pinned, overwritten, recached, writes, stale>>
fontVars    == <<typeface_cache, typeface_lock, tpc, tcall, tresult,
                 first_typeface>>
textVars    == <<emoji_cache, emoji_lock, spc, scall, sresult, emoji_lookups>>
colorVars   == <<color_str, color_out>>
drawVars    == <<canvas_draws>>
restVars    == <<fontVars, textVars, colorVars, drawVars>>
vars == <<painterVars, surfaceVars, imageVars, restVars>>

None == "None"

Abs(x) == IF x < 0 THEN -x ELSE x

(***************************************************************************)
(*                               PAINTER                                   *)
(***************************************************************************)

\* Bound on the depth of state_stack explored.
MaxDepth == 2

\* Font sizes are f32 in the source; here in units of 0.0001, so that sizes
\* closer than the 0.001 threshold of set_style can be told apart.
DefaultFontSize == 140000
FontEps == 10
FontSizes == {DefaultFontSize, DefaultFontSize + 5, 160000}
\* Sizes 0.0008 apart: neighbours are within the threshold, the ends are not.
DriftSizes == {DefaultFontSize, DefaultFontSize + 8, DefaultFontSize + 16}
Families == {None, "Arial"}

\* Option<Shadow>::None, and Shadow::new(color, offset_x, offset_y, blur_radius)
NoShadow == [color |-> "none", offset_x |-> 0, offset_y |-> 0, blur_radius |-> 0]
Shadow(color, offset_x, offset_y, blur_radius) ==
    [color |-> color, offset_x |-> offset_x, offset_y |-> offset_y,
     blur_radius |-> blur_radius]

\* Style::default()
StyleDefault ==
    [fill_color    |-> "#000000",
     stroke_color  |-> None,
     font_family   |-> None,
     font_size     |-> DefaultFontSize,
     border_radius |-> 0,
     shadow        |-> NoShadow]

\* The styles a caller passes to set_style.
Styles ==
    { [StyleDefault EXCEPT !.font_family = f, !.font_size = z] :
          f \in Families, z \in FontSizes }

\* Styles whose font sizes differ by less than the threshold of set_style.
DriftStyles ==
    { [StyleDefault EXCEPT !.font_family = f, !.font_size = z] :
          f \in Families, z \in DriftSizes }

\* font::create_font: a Font of the typeface resolved for `family`, at `size`.
CreateFont(family, size) == [family |-> family, size |-> size]

\* The PainterState pushed by save().
PainterState(style, font) == [style |-> style, font |-> font]

\* A mutant of PushState: the snapshot takes the default style.
PushStateDefault(stack, style, font) ==
    Append(stack, PainterState(StyleDefault, font))

\* save(): self.state_stack.push(PainterState { style, font })
PushState(stack, style, font) == Append(stack, PainterState(style, font))

\* A mutant of CanvasSave: save() forgets the canvas's own save.
CanvasSaveSkipped(n) == n

\* save(), lines 226-228: canvas.save() on the surface's canvas.
CanvasSave(n) == n + 1

\* restore(), lines 240-242: canvas.restore() pops one native save; with none
\* outstanding the call does nothing.
CanvasRestore(n) == IF n > 0 THEN n - 1 ELSE n

\* set_style(): font_changed
FontChanged(style, cur) ==
    \/ style.font_family # cur.font_family
    \/ Abs(style.font_size - cur.font_size) > FontEps

\* The observer of save(); set_style(S2); restore(): next phase after `op`.
NextPhase(op) ==
    CASE op = "save" -> 1
      [] op = "set_style" /\ seq_phase = 1 -> 2
      [] op = "restore" /\ seq_phase = 2 -> 3
      [] OTHER -> 0

NoHeld ==
    [style |-> StyleDefault, font |-> CreateFont(None, DefaultFontSize),
     s2 |-> StyleDefault]

Observe(op, s2) ==
    /\ last_op' = op
    /\ seq_phase' = NextPhase(op)
    /\ seq_held' =
         CASE NextPhase(op) = 1 ->
                [style |-> current_style, font |-> current_font, s2 |-> StyleDefault]
           [] NextPhase(op) = 2 -> [seq_held EXCEPT !.s2 = s2]
           [] NextPhase(op) = 3 -> seq_held
           [] OTHER -> NoHeld

\* SkiaPainter::new(surface): a painter on a surface whose canvas keeps the
\* native saves earlier painters left outstanding.
NewPainter ==
    /\ current_style' = StyleDefault
    /\ current_font' = CreateFont(None, DefaultFontSize)
    /\ state_stack' = <<>>
    /\ base_saves' = canvas_saves
    /\ Observe("new", StyleDefault)
    /\ UNCHANGED <<canvas_saves, surfaceVars, imageVars, restVars>>

\* SkiaPainter::save
Save ==
    /\ Len(state_stack) < MaxDepth
    /\ canvas_saves < MaxDepth
    /\ state_stack' = PushState(state_stack, current_style, current_font)
    /\ canvas_saves' = CanvasSave(canvas_saves)
    /\ Observe("save", StyleDefault)
    /\ UNCHANGED <<current_style, current_font, base_saves, surfaceVars, imageVars, restVars>>

\* SkiaPainter::restore
Restore ==
    /\ IF Len(state_stack) > 0
         THEN LET state == state_stack[Len(state_stack)] IN
              /\ state_stack' = SubSeq(state_stack, 1, Len(state_stack) - 1)
              /\ current_style' = state.style
              /\ current_font' = state.font
         ELSE UNCHANGED <<state_stack, current_style, current_font>>
    /\ canvas_saves' = CanvasRestore(canvas_saves)
    /\ Observe("restore", StyleDefault)
    /\ UNCHANGED <<base_saves, surfaceVars, imageVars, restVars>>

\* SkiaPainter::set_style
SetStyle(style) ==
    /\ current_style' = style
    /\ current_font' =
         IF FontChanged(style, current_style)
           THEN CreateFont(style.font_family, style.font_size)
           ELSE current_font
    /\ Observe("set_style", style)
    /\ UNCHANGED <<state_stack, canvas_saves, base_saves, surfaceVars, imageVars, restVars>>

InitPainter ==
    /\ current_style = StyleDefault
    /\ current_font = CreateFont(None, DefaultFontSize)
    /\ state_stack = <<>>
    /\ canvas_saves = 0
    /\ base_saves = 0
    /\ last_op = "new"
    /\ seq_phase = 0
    /\ seq_held = NoHeld

NextPainter ==
    \/ NewPainter
    \/ Save
    \/ Restore
    \/ \E style \in Styles : SetStyle(style)

\* The painter's operations with styles whose sizes are close to each other.
NextPainterDrift ==
    \/ NewPainter
    \/ Save
    \/ Restore
    \/ \E style \in DriftStyles : SetStyle(style)

(***************************************************************************)
(*                     SURFACE AND GPU CONTEXT SLOT                        *)
(***************************************************************************)

\* Bounds: Surface objects alive at once, DirectContexts a thread constructs.
MaxSurfaces == 2
MaxContexts == 2

Threads == {"t1", "t2"}
SurfIds == 1..MaxSurfaces
\* The (width, height) pairs callers ask for.
Sizes == {<<1, 1>>, <<2, 3>>}
PngPaths == {"out.png"}

\* RGBA8888: 4 bytes per pixel (get_rgba_data, row_bytes).
BytesPerPixel == 4

\* A mutant of ThreadLocalCell: one process-wide cell instead of a thread-local.
ProcessWideCell(t) == "t1"

\* thread_local! GL_CONTEXT: GL_CONTEXT.with on thread t reaches t's own cell.
ThreadLocalCell(t) == t

\* Rust ownership: a DirectContext that goes out of scope is destroyed.
Destroy(live, c) == live \ {c}

\* The render target a surface wraps.
RenderTarget(kind, w, h) == [kind |-> kind, w |-> w, h |-> h]

\* Option::None of Surface.context and of the GL_CONTEXT cell.
NoContext == [thread |-> "none", n |-> 0]

\* A handle that names no live Surface.
NoSurface ==
    [thread |-> "none", inner |-> RenderTarget("none", 0, 0),
     context |-> NoContext, width |-> 0, height |-> 0]

\* Files written by save_png: absent, created but not fully written, or the
\* PNG encoding of a snapshot of the render target.
NoFile == [kind |-> "absent"]
TruncatedFile == [kind |-> "truncated"]
PngFile(inner) == [kind |-> "png"]

\* The record of a finished call: its name, the surface handle and thread it
\* ran on, what it returned, the width/height of the render target it made (0
\* when it made none) and the length of the buffer it returned (get_rgba_data).
Returned(op, s, t, res, w, h, bytes) ==
    [op |-> op, sid |-> s, thread |-> t, res |-> res, w |-> w, h |-> h,
     bytes |-> bytes]

\* A mutant of RasterContext: a raster surface borrows the thread's idle context.
RasterContextFromSlot(t) == gl_context[ThreadLocalCell(t)]

\* Surface::new_raster: context: None
RasterContext(t) == NoContext

\* Surface::new_raster
NewRaster(t, s, w, h, ok) ==
    /\ surfaces[s] = NoSurface
    /\ IF ok
         THEN /\ surfaces' = [surfaces EXCEPT ![s] =
                    [thread |-> t, inner |-> RenderTarget("raster", w, h),
                     context |-> RasterContext(t), width |-> w, height |-> h]]
              /\ ret' = Returned("new_raster", s, t, "Ok", w, h, 0)
         ELSE /\ UNCHANGED surfaces
              /\ ret' = Returned("new_raster", s, t, "RasterSurfaceError", 0, 0, 0)
    /\ UNCHANGED <<gl_context, ctx_made, ctx_live, platform, disk, dropped,
                   painterVars, imageVars, restVars>>

\* The context read from the cell and left in it.
TakeContextKept(t) == gl_context

\* Surface::from_gl_context, lines 206-208: GL_CONTEXT.with(|cell| cell.borrow_mut().take())
TakeContext(t) == [gl_context EXCEPT ![ThreadLocalCell(t)] = NoContext]

\* Surface::from_gl_context
FromGlContext(t, s, w, h, make_ok, wrap_ok) ==
    LET taken == gl_context[ThreadLocalCell(t)]
        fresh == [thread |-> t, n |-> ctx_made[t] + 1]
    IN
    /\ surfaces[s] = NoSurface
    /\ gl_context' = TakeContext(t)
    /\ UNCHANGED <<platform, disk, painterVars, imageVars, restVars>>
    /\ dropped' = [dropped EXCEPT ![t] = {}]
    /\ IF taken # NoContext
         THEN \* reuse the context taken from the cell
              /\ UNCHANGED ctx_made
              /\ IF wrap_ok
                   THEN /\ surfaces' = [surfaces EXCEPT ![s] =
                              [thread |-> t, inner |-> RenderTarget("gpu", w, h),
                               context |-> taken, width |-> w, height |-> h]]
                        /\ UNCHANGED ctx_live
                        /\ ret' = Returned("from_gl_context", s, t, "Ok", w, h, 0)
                   ELSE \* `?` returns; the local `context` goes out of scope
                        /\ UNCHANGED surfaces
                        /\ ctx_live' = Destroy(ctx_live, taken)
                        /\ ret' = Returned("from_gl_context", s, t,
                                           "SurfaceCreationError", 0, 0, 0)
         ELSE IF platform[t] = "down"
           THEN \* gpu::gl::Interface::new_native() and the loader find no GL
                /\ UNCHANGED <<surfaces, ctx_made, ctx_live>>
                /\ ret' = Returned("from_gl_context", s, t,
                                   "OpenGLInterfaceError", 0, 0, 0)
         ELSE IF ~make_ok
           THEN /\ UNCHANGED <<surfaces, ctx_made, ctx_live>>
                /\ ret' = Returned("from_gl_context", s, t,
                                   "DirectContextError", 0, 0, 0)
         ELSE \* gpu::direct_contexts::make_gl constructs a new context
              /\ ctx_made[t] < MaxContexts
              /\ ctx_made' = [ctx_made EXCEPT ![t] = @ + 1]
              /\ IF wrap_ok
                   THEN /\ surfaces' = [surfaces EXCEPT ![s] =
                              [thread |-> t, inner |-> RenderTarget("gpu", w, h),
                               context |-> fresh, width |-> w, height |-> h]]
                        /\ ctx_live' = ctx_live \cup {fresh}
                        /\ ret' = Returned("from_gl_context", s, t, "Ok", w, h, 0)
                   ELSE \* the context just made goes out of scope
                        /\ UNCHANGED <<surfaces, ctx_live>>
                        /\ ret' = Returned("from_gl_context", s, t,
                                           "SurfaceCreationError", 0, 0, 0)

\* A mutant of ResizedHeight: resize forgets to store the new height.
ResizedHeightStale(surface, h) == surface.height

\* Surface::resize, line 311: self.height = height
ResizedHeight(surface, h) == h

\* Surface::resize, lines 281-282: self.context.as_mut().ok_or(NoDirectContext)
ResizeContext(surface) == surface.context

\* Surface::resize
Resize(s, w, h, wrap_ok) ==
    /\ surfaces[s] # NoSurface
    /\ UNCHANGED <<gl_context, ctx_made, ctx_live, platform, disk, dropped,
                   painterVars, imageVars, restVars>>
    /\ IF ResizeContext(surfaces[s]) = NoContext
         THEN /\ UNCHANGED surfaces
              /\ ret' = Returned("resize", s, surfaces[s].thread,
                                 "NoDirectContext", 0, 0, 0)
         ELSE IF ~wrap_ok
           THEN /\ UNCHANGED surfaces
                /\ ret' = Returned("resize", s, surfaces[s].thread,
                                   "SurfaceCreationError", 0, 0, 0)
         ELSE /\ surfaces' = [surfaces EXCEPT ![s] =
                    [@ EXCEPT !.inner = RenderTarget("gpu", w, h),
                              !.width = w,
                              !.height = ResizedHeight(surfaces[s], h)]]
              /\ ret' = Returned("resize", s, surfaces[s].thread, "Ok", w, h, 0)

\* Surface::flush_and_submit
FlushAndSubmit(s) ==
    /\ surfaces[s] # NoSurface
    /\ ret' = Returned("flush_and_submit", s, surfaces[s].thread, "Ok", 0, 0, 0)
    /\ UNCHANGED <<surfaces, gl_context, ctx_made, ctx_live, platform, disk,
                   dropped, painterVars, imageVars, restVars>>

\* Surface::get_rgba_data: row_bytes = width * 4; total_bytes = row_bytes * height
TotalBytes(surface) == (surface.width * BytesPerPixel) * surface.height

\* Surface::get_rgba_data
GetRgbaData(s, read_ok) ==
    /\ surfaces[s] # NoSurface
    /\ ret' = IF read_ok
                THEN Returned("get_rgba_data", s, surfaces[s].thread, "Ok", 0, 0,
                              TotalBytes(surfaces[s]))
                ELSE Returned("get_rgba_data", s, surfaces[s].thread,
                              "ReadPixelsError", 0, 0, 0)
    /\ UNCHANGED <<surfaces, gl_context, ctx_made, ctx_live, platform, disk,
                   dropped, painterVars, imageVars, restVars>>

\* Surface::get_png_data
GetPngData(s, encode_ok) ==
    /\ surfaces[s] # NoSurface
    /\ ret' = IF encode_ok
                THEN Returned("get_png_data", s, surfaces[s].thread, "Ok", 0, 0, 0)
                ELSE Returned("get_png_data", s, surfaces[s].thread,
                              "PngEncodeError", 0, 0, 0)
    /\ UNCHANGED <<surfaces, gl_context, ctx_made, ctx_live, platform, disk,
                   dropped, painterVars, imageVars, restVars>>

SavePngOutcomes == {"Ok", "PngEncodeError", "FileCreateError", "FileWriteError"}

\* Surface::save_png: encode; File::create creates or truncates the file;
\* write_all may fail after that.
SavePng(s, path, outcome) ==
    /\ surfaces[s] # NoSurface
    /\ disk' =
         CASE outcome = "Ok" -> [disk EXCEPT ![path] = PngFile(surfaces[s].inner)]
           [] outcome = "FileWriteError" -> [disk EXCEPT ![path] = TruncatedFile]
           [] OTHER -> disk
    /\ ret' = Returned("save_png", s, surfaces[s].thread, outcome, 0, 0, 0)
    /\ UNCHANGED <<surfaces, gl_context, ctx_made, ctx_live, platform,
                   dropped, painterVars, imageVars, restVars>>

\* A mutant of ReturnContext: drop lets the context go instead of caching it.
ReturnContextLost(t, context) == gl_context

\* impl Drop for Surface, lines 440-442: *cell.borrow_mut() = Some(context)
ReturnContext(t, context) ==
    [gl_context EXCEPT ![ThreadLocalCell(t)] = context]

\* The contexts of `live` still owned by a cell of `cells` or by a live surface
\* other than s: what no longer has an owner is destroyed.
StillOwned(live, cells, s) ==
    {c \in live :
        \/ \E u \in Threads : cells[u] = c
        \/ \E o \in SurfIds \ {s} : surfaces[o] # NoSurface /\ surfaces[o].context = c}

\* impl Drop for Surface
Drop(s) ==
    /\ surfaces[s] # NoSurface
    /\ LET t == surfaces[s].thread
           context == surfaces[s].context
       IN /\ IF context # NoContext
               THEN /\ gl_context' = ReturnContext(t, context)
                    /\ ctx_live' = StillOwned(ctx_live, gl_context', s)
                    /\ dropped' = [dropped EXCEPT ![t] = @ \cup {context}]
               ELSE UNCHANGED <<gl_context, ctx_live, dropped>>
          /\ ret' = Returned("drop", s, t, "Ok", 0, 0, 0)
    /\ surfaces' = [surfaces EXCEPT ![s] = NoSurface]
    /\ UNCHANGED <<ctx_made, platform, disk, painterVars, imageVars, restVars>>

\* The environment tears the platform GL context of thread t down.
PlatformTearDown(t) ==
    /\ platform[t] # "down"
    /\ platform' = [platform EXCEPT ![t] = "down"]
    /\ ret' = Returned("platform", 0, t, "Ok", 0, 0, 0)
    /\ UNCHANGED <<surfaces, gl_context, ctx_made, ctx_live, disk,
                   dropped, painterVars, imageVars, restVars>>

\* The caller re-establishes the platform GL context of thread t.
PlatformReestablish(t) ==
    /\ platform[t] = "down"
    /\ platform' = [platform EXCEPT ![t] = "restored"]
    /\ ret' = Returned("platform", 0, t, "Ok", 0, 0, 0)
    /\ UNCHANGED <<surfaces, gl_context, ctx_made, ctx_live, disk,
                   dropped, painterVars, imageVars, restVars>>

InitSurface ==
    /\ surfaces = [s \in SurfIds |-> NoSurface]
    /\ gl_context = [t \in Threads |-> NoContext]
    /\ ctx_made = [t \in Threads |-> 0]
    /\ ctx_live = {}
    /\ platform = [t \in Threads |-> "current"]
    /\ disk = [p \in PngPaths |-> NoFile]
    /\ ret = Returned("none", 0, "none", "Ok", 0, 0, 0)
    /\ dropped = [t \in Threads |-> {}]

\* The handles no live Surface value has.
FreeHandles == {s \in SurfIds : surfaces[s] = NoSurface}

\* The handle the next Surface value constructed gets: the lowest free one.
NewHandle == CHOOSE s \in FreeHandles : \A r \in FreeHandles : s <= r

\* Every Surface operation, on one thread.
NextSurface ==
    \/ \E z \in Sizes, ok \in BOOLEAN :
          FreeHandles # {} /\ NewRaster("t1", NewHandle, z[1], z[2], ok)
    \/ \E z \in Sizes, make_ok \in BOOLEAN, wrap_ok \in BOOLEAN :
          FreeHandles # {}
            /\ FromGlContext("t1", NewHandle, z[1], z[2], make_ok, wrap_ok)
    \/ \E s \in SurfIds, z \in Sizes, wrap_ok \in BOOLEAN :
          Resize(s, z[1], z[2], wrap_ok)
    \/ \E s \in SurfIds : FlushAndSubmit(s)
    \/ \E s \in SurfIds, read_ok \in BOOLEAN : GetRgbaData(s, read_ok)
    \/ \E s \in SurfIds, encode_ok \in BOOLEAN : GetPngData(s, encode_ok)
    \/ \E s \in SurfIds, path \in PngPaths, outcome \in SavePngOutcomes :
          SavePng(s, path, outcome)
    \/ \E s \in SurfIds : Drop(s)
    \/ PlatformTearDown("t1")
    \/ PlatformReestablish("t1")

\* Every Surface operation, on one thread whose platform GL context stays
\* current throughout.
NextSurfaceCurrent ==
    \/ \E z \in Sizes, ok \in BOOLEAN :
          FreeHandles # {} /\ NewRaster("t1", NewHandle, z[1], z[2], ok)
    \/ \E z \in Sizes, make_ok \in BOOLEAN, wrap_ok \in BOOLEAN :
          FreeHandles # {}
            /\ FromGlContext("t1", NewHandle, z[1], z[2], make_ok, wrap_ok)
    \/ \E s \in SurfIds, z \in Sizes, wrap_ok \in BOOLEAN :
          Resize(s, z[1], z[2], wrap_ok)
    \/ \E s \in SurfIds : FlushAndSubmit(s)
    \/ \E s \in SurfIds, read_ok \in BOOLEAN : GetRgbaData(s, read_ok)
    \/ \E s \in SurfIds, encode_ok \in BOOLEAN : GetPngData(s, encode_ok)
    \/ \E s \in SurfIds, path \in PngPaths, outcome \in SavePngOutcomes :
          SavePng(s, path, outcome)
    \/ \E s \in SurfIds : Drop(s)

\* GPU surfaces created, resized and dropped on several threads.
NextSurfaceThreads ==
    \/ \E t \in Threads, z \in Sizes, wrap_ok \in BOOLEAN :
          FreeHandles # {} /\ FromGlContext(t, NewHandle, z[1], z[2], TRUE, wrap_ok)
    \/ \E s \in SurfIds, z \in Sizes, wrap_ok \in BOOLEAN :
          Resize(s, z[1], z[2], wrap_ok)
    \/ \E s \in SurfIds : Drop(s)

(***************************************************************************)
(*                              IMAGE CACHE                                *)
(***************************************************************************)

\* Bound: changes the environment makes to the image files.
MaxWrites == 2

Callers == {"c1", "c2"}
ImgPaths == {"a.png", "b.png"}
\* What an image file may hold: nothing readable, bytes that do not decode,
\* or one of two encoded images.
Contents == {"missing", "corrupt", "imgA", "imgB"}
Unread == "unread"
Free == "free"

\* An absent cache entry / no image.
NoImage == [pixels |-> "none", width |-> 0, height |-> 0]

\* Image::from_encoded on bytes that decode.
Decoded(bytes) ==
    IF bytes = "imgA" THEN [pixels |-> "imgA", width |-> 2, height |-> 3]
    ELSE [pixels |-> "imgB", width |-> 4, height |-> 5]

Images == {Decoded("imgA"), Decoded("imgB")}

\* IMAGE_CACHE = Mutex::new(None)
CacheNone == [init |-> FALSE, map |-> [p \in ImgPaths |-> NoImage]]

\* No std::io::Error.
NoIoError == "none"

\* asked: the use_cache flag the caller passed; old: a clear_image_cache() has
\* returned since this call, a cached load still running, read the file.
NoCall ==
    [op |-> "none", path |-> "a.png", use_cache |-> FALSE, bytes |-> Unread,
     image |-> NoImage, expect |-> NoImage, after_clear |-> FALSE,
     asked |-> FALSE, old |-> FALSE]

NoResult ==
    [op |-> "none", res |-> "none", image |-> NoImage, path |-> "a.png",
     dims |-> <<0, 0>>, source |-> NoIoError]

\* What a call returned: Ok with an image (load_image) or with dims
\* (measure_image), or an error carrying `path` and, for a read error, `source`.
Finished(op, res, image, path) ==
    [op |-> op, res |-> res, image |-> image, path |-> path,
     dims |-> <<0, 0>>, source |-> NoIoError]

\* A mutant of ReadError: the path is not put into the error.
ReadErrorNoPath(path, e) ==
    [Finished("load", "ImageReadError", NoImage, "") EXCEPT !.source = e]

\* load_image, lines 40-43: Error::ImageReadError { path, source: e }
ReadError(path, e) ==
    [Finished("load", "ImageReadError", NoImage, path) EXCEPT !.source = e]

\* load_image, line 47: Error::ImageDecodeError(path)
DecodeError(path) == Finished("load", "ImageDecodeError", NoImage, path)

\* measure_image, line 63: (image.width(), image.height())
Dimensions(image) == <<image.width, image.height>>

\* measure_image, lines 62-63: `?` passes load_image's error on, Ok gives the
\* dimensions; load_image itself returns r as it is.
Outcome(op, r) ==
    IF op = "measure"
      THEN IF r.res = "Ok"
             THEN [r EXCEPT !.op = "measure", !.image = NoImage,
                            !.dims = Dimensions(r.image)]
             ELSE [r EXCEPT !.op = "measure"]
      ELSE r

\* The call record of a caller entering load_image(path, use_cache), directly
\* or through measure_image.
Entered(op, path, asked, use_cache) ==
    [op |-> op, path |-> path, use_cache |-> use_cache,
     bytes |-> Unread, image |-> NoImage,
     expect |-> IF use_cache THEN pinned[path] ELSE NoImage,
     after_clear |-> use_cache /\ recached[path],
     asked |-> asked, old |-> FALSE]

\* A caller enters load_image(path, use_cache).
CallLoad(c, path, use_cache) ==
    /\ pc[c] = "idle"
    /\ pc' = [pc EXCEPT ![c] = "ensure"]
    /\ call' = [call EXCEPT ![c] = Entered("load", path, use_cache, use_cache)]
    /\ recached' = IF use_cache THEN [recached EXCEPT ![path] = FALSE] ELSE recached
    /\ UNCHANGED <<image_cache, image_lock, files, result, pinned, overwritten, writes,
                   stale, painterVars, surfaceVars, restVars>>

\* A mutant of MeasureUseCache: measuring never uses the cache.
MeasureUseCacheOff(use_cache) == FALSE

\* measure_image, line 62: load_image(path, use_cache)
MeasureUseCache(use_cache) == use_cache

\* A caller enters measure_image(path, use_cache), which enters load_image.
CallMeasure(c, path, use_cache) ==
    /\ pc[c] = "idle"
    /\ pc' = [pc EXCEPT ![c] = "ensure"]
    /\ call' = [call EXCEPT ![c] =
          Entered("measure", path, use_cache, MeasureUseCache(use_cache))]
    /\ recached' = IF MeasureUseCache(use_cache)
                     THEN [recached EXCEPT ![path] = FALSE] ELSE recached
    /\ UNCHANGED <<image_cache, image_lock, files, result, pinned, overwritten, writes,
                   stale, painterVars, surfaceVars, restVars>>

\* A caller enters clear_image_cache().
CallClear(c) ==
    /\ pc[c] = "idle"
    /\ pc' = [pc EXCEPT ![c] = "clear"]
    /\ call' = [call EXCEPT ![c] = [NoCall EXCEPT !.op = "clear"]]
    /\ UNCHANGED <<image_cache, image_lock, files, result, pinned, overwritten, recached, writes,
                   stale, painterVars, surfaceVars, restVars>>

\* get_cache(): IMAGE_CACHE.lock().unwrap() blocks until the mutex is free.
GetCache(c) ==
    /\ pc[c] \in {"ensure", "lookup", "store", "clear"}
    /\ image_lock = Free
    /\ image_lock' = c
    /\ pc' = [pc EXCEPT ![c] = CASE pc[c] = "ensure" -> "ensure_cs"
                                 [] pc[c] = "lookup" -> "lookup_cs"
                                 [] pc[c] = "store" -> "store_cs"
                                 [] OTHER -> "clear_cs"]
    /\ UNCHANGED <<image_cache, files, call, result, pinned, overwritten, recached, writes,
                   stale, painterVars, surfaceVars, restVars>>

\* A mutant of CheckCacheFirst: the cache is consulted whatever the flag.
CheckCacheAlways(use_cache) == TRUE

\* load_image, line 29: if use_cache { .. }
CheckCacheFirst(use_cache) == use_cache

\* ensure_cache(), lines 19-21, then the guard is dropped.
EnsureCache(c) ==
    /\ pc[c] = "ensure_cs"
    /\ image_cache' = [image_cache EXCEPT !.init = TRUE]
    /\ image_lock' = Free
    /\ pc' = [pc EXCEPT ![c] =
          IF CheckCacheFirst(call[c].use_cache) THEN "lookup" ELSE "read"]
    /\ UNCHANGED <<files, call, result, pinned, overwritten, recached, writes,
                   stale, painterVars, surfaceVars, restVars>>

\* A mutant of CacheGet: the lookup never finds an entry.
CacheGetMiss(cache, path) == NoImage

\* load_image, lines 31-32: cache_map.get(path) on the locked cache
CacheGet(cache, path) == IF cache.init THEN cache.map[path] ELSE NoImage

\* A mutant of DropGuard: the guard outlives the block of the cache check.
KeepGuard(c) == c

\* load_image, line 36: the block of the cache check ends and its MutexGuard
\* `cache` is dropped, which unlocks IMAGE_CACHE.
DropGuard(c) == Free

\* load_image, lines 29-36: the cache check
Lookup(c) ==
    /\ pc[c] = "lookup_cs"
    /\ image_lock' = DropGuard(c)
    /\ LET img == CacheGet(image_cache, call[c].path) IN
       IF img # NoImage
         THEN /\ pc' = [pc EXCEPT ![c] = "idle"]
              /\ result' = [result EXCEPT ![c] =
                    Outcome(call[c].op, Finished("load", "Ok", img, call[c].path))]
              /\ pinned' = IF pinned[call[c].path] = NoImage
                             THEN [pinned EXCEPT ![call[c].path] = img]
                             ELSE pinned
         ELSE /\ pc' = [pc EXCEPT ![c] = "read"]
              /\ UNCHANGED <<result, pinned>>
    /\ UNCHANGED <<image_cache, files, call, overwritten, recached, writes,
                   stale, painterVars, surfaceVars, restVars>>

\* std::fs::read: the io::Error it gives, if any.
FsRead(content) == IF content = "missing" THEN "NotFound" ELSE NoIoError

\* load_image, lines 39-43: fs::read(path)
ReadFile(c) ==
    /\ pc[c] = "read"
    /\ IF FsRead(files[call[c].path]) # NoIoError
         THEN /\ pc' = [pc EXCEPT ![c] = "idle"]
              /\ result' = [result EXCEPT ![c] =
                    Outcome(call[c].op,
                            ReadError(call[c].path, FsRead(files[call[c].path])))]
              /\ UNCHANGED call
         ELSE /\ pc' = [pc EXCEPT ![c] = "decode"]
              /\ call' = [call EXCEPT ![c].bytes = files[call[c].path]]
              /\ UNCHANGED result
    /\ UNCHANGED <<image_cache, image_lock, files, pinned, overwritten, recached, writes,
                   stale, painterVars, surfaceVars, restVars>>

\* load_image, lines 45-47: Image::from_encoded(data)
Decode(c) ==
    /\ pc[c] = "decode"
    /\ IF call[c].bytes = "corrupt"
         THEN /\ pc' = [pc EXCEPT ![c] = "idle"]
              /\ result' = [result EXCEPT ![c] =
                    Outcome(call[c].op, DecodeError(call[c].path))]
              /\ call' = [call EXCEPT ![c].old = FALSE]
         ELSE IF call[c].use_cache
           THEN /\ pc' = [pc EXCEPT ![c] = "store"]
                /\ call' = [call EXCEPT ![c].image = Decoded(call[c].bytes)]
                /\ UNCHANGED result
         ELSE /\ pc' = [pc EXCEPT ![c] = "idle"]
              /\ call' = [call EXCEPT ![c].image = Decoded(call[c].bytes)]
              /\ result' = [result EXCEPT ![c] =
                    Outcome(call[c].op,
                            Finished("load", "Ok", Decoded(call[c].bytes),
                                     call[c].path))]
    /\ UNCHANGED <<image_cache, image_lock, files, pinned, overwritten, recached, writes,
                   stale, painterVars, surfaceVars, restVars>>

\* load_image, line 53: cache_map.insert(path, image.clone())
CacheInsert(cache, path, image) ==
    IF cache.init THEN [cache EXCEPT !.map[path] = image] ELSE cache

\* load_image, lines 50-57: store in the cache and return the image
Store(c) ==
    /\ pc[c] = "store_cs"
    /\ image_cache' = CacheInsert(image_cache, call[c].path, call[c].image)
    /\ image_lock' = Free
    /\ pc' = [pc EXCEPT ![c] = "idle"]
    /\ result' = [result EXCEPT ![c] =
          Outcome(call[c].op, Finished("load", "Ok", call[c].image, call[c].path))]
    /\ pinned' = IF pinned[call[c].path] = NoImage
                   THEN [pinned EXCEPT ![call[c].path] = call[c].image]
                   ELSE pinned
    /\ overwritten' = IF pinned[call[c].path] = NoImage
                        THEN overwritten
                        ELSE [overwritten EXCEPT ![call[c].path] = TRUE]
    /\ stale' = [stale EXCEPT ![call[c].path] = call[c].old]
    /\ call' = [call EXCEPT ![c].old = FALSE]
    /\ UNCHANGED <<files, recached, writes,
                   painterVars, surfaceVars, restVars>>

\* A mutant of CacheClear: the map is left as it is.
CacheClearNothing(cache) == cache

\* clear_image_cache, lines 76-78: cache_map.clear()
CacheClear(cache) ==
    IF cache.init THEN [cache EXCEPT !.map = [p \in ImgPaths |-> NoImage]]
    ELSE cache

\* clear_image_cache
Clear(c) ==
    /\ pc[c] = "clear_cs"
    /\ image_cache' = CacheClear(image_cache)
    /\ image_lock' = Free
    /\ pc' = [pc EXCEPT ![c] = "idle"]
    /\ result' = [result EXCEPT ![c] = Finished("clear", "Ok", NoImage, "a.png")]
    /\ pinned' = [p \in ImgPaths |-> NoImage]
    /\ overwritten' = [p \in ImgPaths |-> FALSE]
    /\ recached' = [p \in ImgPaths |-> CacheGet(image_cache, p) # NoImage]
    \* a clear lies between the first load and every load still running
    \* and after the read of every load that has read the file already
    /\ call' = [d \in Callers |->
          [call[d] EXCEPT !.expect = NoImage,
                          !.old = @ \/ (/\ pc[d] \in {"decode", "store"}
                                        /\ call[d].use_cache)]]
    /\ stale' = [p \in ImgPaths |-> FALSE]
    /\ UNCHANGED <<files, writes,
                   painterVars, surfaceVars, restVars>>

\* The environment changes an image file.
WriteFile(path, content) ==
    /\ writes < MaxWrites
    /\ files[path] # content
    /\ files' = [files EXCEPT ![path] = content]
    /\ writes' = writes + 1
    /\ UNCHANGED <<image_cache, image_lock, pc, call, result, pinned, overwritten,
                   recached, stale, painterVars, surfaceVars, restVars>>

InitImage ==
    /\ image_cache = CacheNone
    /\ image_lock = Free
    /\ files = [p \in ImgPaths |-> "imgA"]
    /\ pc = [c \in Callers |-> "idle"]
    /\ call = [c \in Callers |-> NoCall]
    /\ result = [c \in Callers |-> NoResult]
    /\ pinned = [p \in ImgPaths |-> NoImage]
    /\ overwritten = [p \in ImgPaths |-> FALSE]
    /\ recached = [p \in ImgPaths |-> FALSE]
    /\ writes = 0
    /\ stale = [p \in ImgPaths |-> FALSE]

\* The steps of caller c, loading from `paths`.
ImageStep(c, paths) ==
    \/ \E path \in paths, use_cache \in BOOLEAN : CallLoad(c, path, use_cache)
    \/ CallClear(c)
    \/ GetCache(c)
    \/ EnsureCache(c)
    \/ Lookup(c)
    \/ ReadFile(c)
    \/ Decode(c)
    \/ Store(c)
    \/ Clear(c)

\* Concurrent callers on one image file.
NextImage ==
    \/ \E c \in Callers : ImageStep(c, {"a.png"})
    \/ \E content \in Contents : WriteFile("a.png", content)

\* A single caller on every image file.
NextImageSeq ==
    \/ ImageStep("c1", ImgPaths)
    \/ \E path \in ImgPaths, use_cache \in BOOLEAN :
          CallMeasure("c1", path, use_cache)
    \/ \E path \in ImgPaths, content \in Contents : WriteFile(path, content)

(***************************************************************************)
(*                            TYPEFACE CACHE                               *)
(***************************************************************************)

\* Option<Typeface>::None.
NoTypeface == [family |-> "none", inst |-> 0]

\* A Typeface object: the family it renders and which instance it is.
Typeface(family, inst) == [family |-> family, inst |-> inst]

\* Typeface objects the font manager may hand out for one family: the fonts
\* installed may change, and each FontMgr::default() builds its own objects.
Instances == {1, 2}

\* mgr.match_family_style(family_name, ..): nothing, or a typeface of the family.
NamedAnswers(family) ==
    {NoTypeface} \cup {Typeface(family, i) : i \in Instances}

\* The first of fallback_families that mgr.match_family_style finds, if any.
FallbackAnswers == {NoTypeface} \cup {Typeface("Noto Sans", i) : i \in Instances}

\* mgr.legacy_make_typeface(None, FontStyle::normal())
LegacyAnswers == {NoTypeface, Typeface("legacy", 1)}

\* create_typeface_uncached, given what the font manager answers
CreateTypefaceUncached(family, named, fallback, legacy) ==
    IF family # None /\ named # NoTypeface THEN named
    ELSE IF fallback # NoTypeface THEN fallback
    ELSE legacy

\* create_typeface, line 24: family.unwrap_or("__default__")
CacheKey(family) == IF family = None THEN "__default__" ELSE family

TypefaceKeys == {CacheKey(f) : f \in Families}

\* TYPEFACE_CACHE = Mutex::new(None)
TypefaceCacheNone ==
    [init |-> FALSE, map |-> [k \in TypefaceKeys |-> NoTypeface]]

\* matched: create_typeface_uncached ran in this call; expect: the typeface an
\* earlier call for the same key had returned when this call began.
NoTypefaceCall ==
    [family |-> None, key |-> "__default__", typeface |-> NoTypeface,
     matched |-> FALSE, expect |-> NoTypeface]

\* A caller enters create_typeface(family).
CallCreateTypeface(c, family) ==
    /\ tpc[c] = "idle"
    /\ tpc' = [tpc EXCEPT ![c] = "lookup"]
    /\ tcall' = [tcall EXCEPT ![c] =
          [family |-> family, key |-> CacheKey(family), typeface |-> NoTypeface,
           matched |-> FALSE, expect |-> first_typeface[CacheKey(family)]]]
    /\ UNCHANGED <<typeface_cache, typeface_lock, tresult, first_typeface,
                   painterVars, surfaceVars, imageVars, textVars, colorVars,
                   drawVars>>

\* TYPEFACE_CACHE.lock().unwrap() blocks until the mutex is free.
LockTypefaceCache(c) ==
    /\ tpc[c] \in {"lookup", "store"}
    /\ typeface_lock = Free
    /\ typeface_lock' = c
    /\ tpc' = [tpc EXCEPT ![c] = IF tpc[c] = "lookup" THEN "lookup_cs"
                                                       ELSE "store_cs"]
    /\ UNCHANGED <<typeface_cache, tcall, tresult, first_typeface,
                   painterVars, surfaceVars, imageVars, textVars, colorVars,
                   drawVars>>

\* create_typeface, lines 29-30: map.get(&cache_key) on the locked cache
TypefaceGet(cache, key) == IF cache.init THEN cache.map[key] ELSE NoTypeface

\* The observer after a call returned typeface tf for key.
FirstReturned(key, tf) ==
    IF first_typeface[key] = NoTypeface
      THEN [first_typeface EXCEPT ![key] = tf]
      ELSE first_typeface

\* create_typeface, lines 27-34: the cache check
TypefaceLookup(c) ==
    /\ tpc[c] = "lookup_cs"
    /\ typeface_lock' = Free
    /\ LET tf == TypefaceGet(typeface_cache, tcall[c].key) IN
       IF tf # NoTypeface
         THEN /\ tpc' = [tpc EXCEPT ![c] = "idle"]
              /\ tresult' = [tresult EXCEPT ![c] = tf]
              /\ first_typeface' = FirstReturned(tcall[c].key, tf)
         ELSE /\ tpc' = [tpc EXCEPT ![c] = "match"]
              /\ UNCHANGED <<tresult, first_typeface>>
    /\ UNCHANGED <<typeface_cache, tcall,
                   painterVars, surfaceVars, imageVars, textVars, colorVars,
                   drawVars>>

\* create_typeface, line 37: create_typeface_uncached(family); a None result is
\* returned at line 50 without being stored.
MatchTypeface(c, named, fallback, legacy) ==
    /\ tpc[c] = "match"
    /\ LET tf == CreateTypefaceUncached(tcall[c].family, named, fallback, legacy) IN
       /\ tcall' = [tcall EXCEPT ![c].typeface = tf, ![c].matched = TRUE]
       /\ IF tf = NoTypeface
            THEN /\ tpc' = [tpc EXCEPT ![c] = "idle"]
                 /\ tresult' = [tresult EXCEPT ![c] = NoTypeface]
            ELSE /\ tpc' = [tpc EXCEPT ![c] = "store"]
                 /\ UNCHANGED tresult
    /\ UNCHANGED <<typeface_cache, typeface_lock, first_typeface,
                   painterVars, surfaceVars, imageVars, textVars, colorVars,
                   drawVars>>

\* create_typeface, lines 42-47: create the map if absent, map.insert(key, tf)
TypefaceInsert(cache, key, tf) ==
    [init |-> TRUE, map |-> [cache.map EXCEPT ![key] = tf]]

\* create_typeface, lines 40-50: store in the cache and return the typeface
TypefaceStore(c) ==
    /\ tpc[c] = "store_cs"
    /\ typeface_cache' = TypefaceInsert(typeface_cache, tcall[c].key,
                                        tcall[c].typeface)
    /\ typeface_lock' = Free
    /\ tpc' = [tpc EXCEPT ![c] = "idle"]
    /\ tresult' = [tresult EXCEPT ![c] = tcall[c].typeface]
    /\ first_typeface' = FirstReturned(tcall[c].key, tcall[c].typeface)
    /\ UNCHANGED <<tcall,
                   painterVars, surfaceVars, imageVars, textVars, colorVars,
                   drawVars>>

InitTypeface ==
    /\ typeface_cache = TypefaceCacheNone
    /\ typeface_lock = Free
    /\ tpc = [c \in Callers |-> "idle"]
    /\ tcall = [c \in Callers |-> NoTypefaceCall]
    /\ tresult = [c \in Callers |-> NoTypeface]
    /\ first_typeface = [k \in TypefaceKeys |-> NoTypeface]

\* The steps of caller c inside create_typeface.
TypefaceStep(c) ==
    \/ \E family \in Families : CallCreateTypeface(c, family)
    \/ LockTypefaceCache(c)
    \/ TypefaceLookup(c)
    \/ \E named \in NamedAnswers(tcall[c].family), fallback \in FallbackAnswers,
          legacy \in LegacyAnswers :
          MatchTypeface(c, named, fallback, legacy)
    \/ TypefaceStore(c)

\* Concurrent callers of create_typeface.
NextTypeface == \E c \in Callers : TypefaceStep(c)

\* A single caller of create_typeface.
NextTypefaceSeq == TypefaceStep("c1")

(***************************************************************************)
(*                     EMOJI CACHE AND TEXT SEGMENTATION                   *)
(***************************************************************************)

MaxTextLen == 3

\* Code points the texts are made of: 'A', U+2764 (a symbol outside the emoji
\* ranges), U+1F389 (the party popper) and U+1F1E6 (a regional indicator).
CodePoints == {65, 10084, 127881, 127462}

\* Every text of at most MaxTextLen characters.
Texts == UNION {[1..n -> CodePoints] : n \in 0..MaxTextLen}

\* The texts the concurrent callers segment.
ThreadTexts == {<<65>>, <<127881>>, <<65, 127881, 10084>>}

\* primary_typeface: None or a typeface of the caller
Primaries == {NoTypeface, Typeface("Arial", 1)}

\* mgr.match_family_style_character("", .., 0x1F389): None or an emoji typeface
EmojiAnswers ==
    {NoTypeface} \cup {Typeface("Apple Color Emoji", i) : i \in Instances}

\* is_likely_emoji
IsLikelyEmoji(cp) ==
    \/ cp \in 127744..128511      \* 0x1F300..=0x1F5FF
    \/ cp \in 128512..128591      \* 0x1F600..=0x1F64F
    \/ cp \in 128640..128767      \* 0x1F680..=0x1F6FF
    \/ cp \in 128768..128895      \* 0x1F700..=0x1F77F
    \/ cp \in 128896..129023      \* 0x1F780..=0x1F7FF
    \/ cp \in 129024..129279      \* 0x1F800..=0x1F8FF
    \/ cp \in 129280..129535      \* 0x1F900..=0x1F9FF
    \/ cp \in 129536..129647      \* 0x1FA00..=0x1FA6F
    \/ cp \in 129648..129791      \* 0x1FA70..=0x1FAFF
    \/ cp \in 127456..127487      \* 0x1F1E0..=0x1F1FF

\* contains_emoji
ContainsEmoji(text) == \E i \in 1..Len(text) : IsLikelyEmoji(text[i])

\* EMOJI_TYPEFACE_CACHE = Mutex::new(None); set: the outer Option is Some.
EmojiCacheNone == [set |-> FALSE, tf |-> NoTypeface]

\* TextSegment
TextSegment(text, typeface) == [text |-> text, typeface |-> typeface]

\* primary_typeface.cloned().unwrap_or_else(|| ..legacy_make_typeface(..).unwrap());
\* NoTypeface stands for the unwrap of None.
DefaultTypeface(primary, legacy) ==
    IF primary # NoTypeface THEN primary ELSE legacy

\* The flush in the loop never taken.
FlushNever(is_emoji, current_is_emoji, current_text) == FALSE

\* segment_text_by_font, line 265: the type changed and there is text to flush
FlushNeeded(is_emoji, current_is_emoji, current_text) ==
    is_emoji # current_is_emoji /\ current_text # <<>>

\* Every segment given the default typeface.
SegmentTypefaceDefault(current_is_emoji, emoji_typeface, default_typeface) ==
    default_typeface

\* segment_text_by_font, lines 267-271 and 285-289: the typeface of a segment
SegmentTypeface(current_is_emoji, emoji_typeface, default_typeface) ==
    IF current_is_emoji
      THEN (IF emoji_typeface # NoTypeface THEN emoji_typeface
                                           ELSE default_typeface)
      ELSE default_typeface

RECURSIVE SegmentLoop(_, _, _, _, _, _, _)
\* segment_text_by_font, lines 258-297: the loop from character i on, and the
\* flush of the remaining segment
SegmentLoop(text, i, segments, current_text, current_is_emoji, emoji_typeface, default_typeface) ==
    IF i > Len(text)
      THEN IF current_text # <<>>
             THEN Append(segments,
                         TextSegment(current_text,
                                     SegmentTypeface(current_is_emoji,
                                                     emoji_typeface,
                                                     default_typeface)))
             ELSE segments
      ELSE LET is_emoji == IsLikelyEmoji(text[i])
               flush    == FlushNeeded(is_emoji, current_is_emoji, current_text)
               pushed   == IF flush
                             THEN Append(segments,
                                    TextSegment(current_text,
                                                SegmentTypeface(current_is_emoji,
                                                                emoji_typeface,
                                                                default_typeface)))
                             ELSE segments
               taken    == IF flush THEN <<>> ELSE current_text
           IN SegmentLoop(text, i + 1, pushed, Append(taken, text[i]), is_emoji,
                          emoji_typeface, default_typeface)

\* What a segment_text_by_font call gave: segments, or the panic of an unwrap.
NoSegments == [res |-> "none", segments |-> <<>>]
Segments(segments) == [res |-> "Ok", segments |-> segments]
Panicked == [res |-> "panic", segments |-> <<>>]

\* emoji: what get_emoji_typeface returned to this call; consulted: what the
\* cache held when this call last had it locked.
NoSegmentCall ==
    [text |-> <<>>, primary |-> NoTypeface, emoji |-> NoTypeface,
     consulted |-> NoTypeface, resolved |-> FALSE]

\* A caller enters segment_text_by_font(text, primary_typeface, _style); lines
\* 239 and 244 choose the path.
CallSegment(c, text, primary) ==
    /\ spc[c] = "idle"
    /\ spc' = [spc EXCEPT ![c] = IF text = <<>> THEN "empty"
                                  ELSE IF ~ContainsEmoji(text) THEN "fast"
                                  ELSE "check"]
    /\ scall' = [scall EXCEPT ![c] =
          [text |-> text, primary |-> primary, emoji |-> NoTypeface,
           consulted |-> NoTypeface, resolved |-> FALSE]]
    /\ sresult' = [sresult EXCEPT ![c] = NoSegments]
    /\ UNCHANGED <<emoji_cache, emoji_lock, emoji_lookups,
                   painterVars, surfaceVars, imageVars, fontVars, colorVars,
                   drawVars>>

\* segment_text_by_font, lines 239-241: the empty text
SegmentEmpty(c) ==
    /\ spc[c] = "empty"
    /\ spc' = [spc EXCEPT ![c] = "idle"]
    /\ sresult' = [sresult EXCEPT ![c] = Segments(<<>>)]
    /\ UNCHANGED <<emoji_cache, emoji_lock, scall, emoji_lookups,
                   painterVars, surfaceVars, imageVars, fontVars, colorVars,
                   drawVars>>

\* segment_text_by_font, lines 244-251: no emoji, one segment
SegmentFastPath(c, legacy) ==
    /\ spc[c] = "fast"
    /\ spc' = [spc EXCEPT ![c] = "idle"]
    /\ LET typeface == DefaultTypeface(scall[c].primary, legacy) IN
       sresult' = [sresult EXCEPT ![c] =
          IF typeface = NoTypeface
            THEN Panicked
            ELSE Segments(<<TextSegment(scall[c].text, typeface)>>)]
    /\ UNCHANGED <<emoji_cache, emoji_lock, scall, emoji_lookups,
                   painterVars, surfaceVars, imageVars, fontVars, colorVars,
                   drawVars>>

\* EMOJI_TYPEFACE_CACHE.lock().unwrap() blocks until the mutex is free.
LockEmojiCache(c) ==
    /\ spc[c] \in {"check", "store"}
    /\ emoji_lock = Free
    /\ emoji_lock' = c
    /\ spc' = [spc EXCEPT ![c] = IF spc[c] = "check" THEN "check_cs"
                                                     ELSE "store_cs"]
    /\ UNCHANGED <<emoji_cache, scall, sresult, emoji_lookups,
                   painterVars, surfaceVars, imageVars, fontVars, colorVars,
                   drawVars>>

\* get_emoji_typeface, lines 148-153: the cache check
EmojiCheck(c) ==
    /\ spc[c] = "check_cs"
    /\ emoji_lock' = Free
    /\ IF emoji_cache.set
         THEN /\ spc' = [spc EXCEPT ![c] = "segment"]
              /\ scall' = [scall EXCEPT ![c].emoji = emoji_cache.tf,
                                        ![c].consulted = emoji_cache.tf]
         ELSE /\ spc' = [spc EXCEPT ![c] = "lookup"]
              /\ UNCHANGED scall
    /\ UNCHANGED <<emoji_cache, sresult, emoji_lookups,
                   painterVars, surfaceVars, imageVars, fontVars, colorVars,
                   drawVars>>

\* get_emoji_typeface, lines 156-162: mgr.match_family_style_character
EmojiLookup(c, answer) ==
    /\ spc[c] = "lookup"
    /\ spc' = [spc EXCEPT ![c] = "store"]
    /\ scall' = [scall EXCEPT ![c].emoji = answer, ![c].resolved = TRUE]
    /\ emoji_lookups' = emoji_lookups + 1
    /\ UNCHANGED <<emoji_cache, emoji_lock, sresult,
                   painterVars, surfaceVars, imageVars, fontVars, colorVars,
                   drawVars>>

\* get_emoji_typeface, line 167: *cache = Some(emoji_tf.clone())
EmojiCacheSet(emoji_tf) == [set |-> TRUE, tf |-> emoji_tf]

\* get_emoji_typeface, lines 165-170: store the result and return it
EmojiStore(c) ==
    /\ spc[c] = "store_cs"
    /\ emoji_cache' = EmojiCacheSet(scall[c].emoji)
    /\ emoji_lock' = Free
    /\ spc' = [spc EXCEPT ![c] = "segment"]
    /\ scall' = [scall EXCEPT ![c].consulted = emoji_cache'.tf]
    /\ UNCHANGED <<sresult, emoji_lookups,
                   painterVars, surfaceVars, imageVars, fontVars, colorVars,
                   drawVars>>

\* segment_text_by_font, lines 255-297: the default typeface, the loop, return
SegmentSlowPath(c, legacy) ==
    /\ spc[c] = "segment"
    /\ spc' = [spc EXCEPT ![c] = "idle"]
    /\ LET default_typeface == DefaultTypeface(scall[c].primary, legacy) IN
       sresult' = [sresult EXCEPT ![c] =
          IF default_typeface = NoTypeface
            THEN Panicked
            ELSE Segments(SegmentLoop(scall[c].text, 1, <<>>, <<>>, FALSE,
                                      scall[c].emoji, default_typeface))]
    /\ UNCHANGED <<emoji_cache, emoji_lock, scall, emoji_lookups,
                   painterVars, surfaceVars, imageVars, fontVars, colorVars,
                   drawVars>>

InitText ==
    /\ emoji_cache = EmojiCacheNone
    /\ emoji_lock = Free
    /\ spc = [c \in Callers |-> "idle"]
    /\ scall = [c \in Callers |-> NoSegmentCall]
    /\ sresult = [c \in Callers |-> NoSegments]
    /\ emoji_lookups = 0

\* The steps of caller c inside segment_text_by_font on one of the given texts.
TextStep(c, texts) ==
    \/ \E text \in texts, primary \in Primaries : CallSegment(c, text, primary)
    \/ SegmentEmpty(c)
    \/ \E legacy \in LegacyAnswers : SegmentFastPath(c, legacy)
    \/ LockEmojiCache(c)
    \/ EmojiCheck(c)
    \/ \E answer \in EmojiAnswers : EmojiLookup(c, answer)
    \/ EmojiStore(c)
    \/ \E legacy \in LegacyAnswers : SegmentSlowPath(c, legacy)

\* Concurrent callers of segment_text_by_font.
NextText == \E c \in Callers : TextStep(c, ThreadTexts \cup {<<>>})

\* A single caller of segment_text_by_font, on every text.
NextTextSeq == TextStep("c1", Texts)

(***************************************************************************)
(*                               parse_color                               *)
(***************************************************************************)

MaxColorLen == 8
MaxHashes == 1

\* The digits of radix 16, by value, in lower and in upper case.
LowerDigits == <<"0", "1", "2", "3", "4", "5", "6", "7", "8", "9",
                 "a", "b", "c", "d", "e", "f">>
UpperDigits == <<"0", "1", "2", "3", "4", "5", "6", "7", "8", "9",
                 "A", "B", "C", "D", "E", "F">>

\* char::to_digit(16) succeeds
IsHexDigit(ch) == \E v \in 1..16 : ch = LowerDigits[v] \/ ch = UpperDigits[v]

\* char::to_digit(16)
HexValue(ch) ==
    (CHOOSE v \in 1..16 : ch = LowerDigits[v] \/ ch = UpperDigits[v]) - 1

\* The hexadecimal digits the colour strings are typed from.
HexChars == {"0", "c", "F"}

\* Characters that take two bytes in UTF-8.
TwoByteChars == {"\\u00e9"}

\* char::len_utf8
Utf8Len(ch) == IF ch \in TwoByteChars THEN 2 ELSE 1

RECURSIVE ByteLen(_)
\* str::len: the length in bytes
ByteLen(str) == IF str = <<>> THEN 0 ELSE Utf8Len(Head(str)) + ByteLen(Tail(str))

\* The prefix of str that takes n bytes exists: str.is_char_boundary(n)
IsCharBoundary(str, n) ==
    \E k \in 0..Len(str) : ByteLen(SubSeq(str, 1, k)) = n

\* The characters of str before byte offset n, a char boundary.
CharsBefore(str, n) ==
    CHOOSE k \in 0..Len(str) : ByteLen(SubSeq(str, 1, k)) = n

\* &str[from..to], byte offsets; SliceFault when an offset is inside a character
SliceFault == <<"fault">>
Slice(str, from, to) ==
    IF IsCharBoundary(str, from) /\ IsCharBoundary(str, to)
      THEN SubSeq(str, CharsBefore(str, from) + 1, CharsBefore(str, to))
      ELSE SliceFault

\* The leading '#' kept.
TrimNothing(str) == str

RECURSIVE TrimStartMatches(_)
\* color_str.trim_start_matches('#'): every leading '#' removed
TrimStartMatches(str) ==
    IF str # <<>> /\ Head(str) = "#" THEN TrimStartMatches(Tail(str)) ELSE str

\* Result<u8, ParseIntError>::Err
ParseIntError == 0 - 1

RECURSIVE DigitsValue(_)
\* The number the hexadecimal digits denote.
DigitsValue(digits) ==
    IF digits = <<>> THEN 0
    ELSE 16 * DigitsValue(SubSeq(digits, 1, Len(digits) - 1))
           + HexValue(digits[Len(digits)])

\* u8::from_str_radix(src, 16): an optional leading '+', then digits only, and
\* a value that fits eight bits
FromStrRadix16(src) ==
    LET digits == IF Len(src) > 1 /\ Head(src) = "+" THEN Tail(src) ELSE src IN
    IF digits = <<>> \/ \E i \in 1..Len(digits) : ~IsHexDigit(digits[i])
      THEN ParseIntError
    ELSE IF DigitsValue(digits) > 255 THEN ParseIntError
    ELSE DigitsValue(digits)

\* Result::unwrap_or(default)
UnwrapOr(parsed, default) == IF parsed = ParseIntError THEN default ELSE parsed

\* skia_safe::Color::from_argb, and what a call can end in
Color(a, r, g, b) == [res |-> "Ok", a |-> a, r |-> r, g |-> g, b |-> b]
Black == Color(255, 0, 0, 0)
NotParsed == [res |-> "none", a |-> 0, r |-> 0, g |-> 0, b |-> 0]
SlicePanic == [res |-> "panic", a |-> 0, r |-> 0, g |-> 0, b |-> 0]

\* One component: u8::from_str_radix(&s[from..to], 16).unwrap_or(default)
Component(str, from, to, default) ==
    UnwrapOr(FromStrRadix16(Slice(str, from, to)), default)

\* parse_color
ParseColor(str) ==
    LET s == TrimStartMatches(str) IN
    IF ByteLen(s) = 6
      THEN IF \E n \in {2, 4} : ~IsCharBoundary(s, n)
             THEN SlicePanic
             ELSE Color(255, Component(s, 0, 2, 0), Component(s, 2, 4, 0),
                        Component(s, 4, 6, 0))
    ELSE IF ByteLen(s) = 8
      THEN IF \E n \in {2, 4, 6} : ~IsCharBoundary(s, n)
             THEN SlicePanic
             ELSE Color(Component(s, 6, 8, 255), Component(s, 0, 2, 0),
                        Component(s, 2, 4, 0), Component(s, 4, 6, 0))
    ELSE Black

\* The number of leading '#' of str.
Hashes(str) == Len(str) - Len(TrimStartMatches(str))

\* The caller's string gets one more character at its end.
TypeChar(ch) ==
    /\ Len(color_str) - Hashes(color_str) < MaxColorLen
    /\ color_str' = Append(color_str, ch)
    /\ color_out' = NotParsed
    /\ UNCHANGED <<painterVars, surfaceVars, imageVars, fontVars, textVars,
                   drawVars>>

\* The caller's string gets a '#' in front.
PrefixHash ==
    /\ Hashes(color_str) < MaxHashes
    /\ color_str' = <<"#">> \o color_str
    /\ color_out' = NotParsed
    /\ UNCHANGED <<painterVars, surfaceVars, imageVars, fontVars, textVars,
                   drawVars>>

\* parse_color(color_str) is called.
CallParseColor ==
    /\ color_out = NotParsed
    /\ color_out' = ParseColor(color_str)
    /\ UNCHANGED <<color_str,
                   painterVars, surfaceVars, imageVars, fontVars, textVars,
                   drawVars>>

InitColor == color_str = <<>> /\ color_out = NotParsed

\* parse_color on strings of hexadecimal digits, with and without '#'.
NextColor ==
    \/ \E ch \in HexChars : TypeChar(ch)
    \/ PrefixHash
    \/ CallParseColor

\* Characters of arbitrary strings: a hexadecimal digit, a letter that is no
\* digit of radix 16, and a character of two bytes.
AnyChars == {"F", "g"} \cup TwoByteChars

\* parse_color on arbitrary strings, with and without '#'.
NextColorAny ==
    \/ \E ch \in AnyChars : TypeChar(ch)
    \/ PrefixHash
    \/ CallParseColor

(***************************************************************************)
(*                       PAINTER DRAWING OPERATIONS                        *)
(***************************************************************************)

\* The characters of the colour strings the styles carry.
ColorChars(str) ==
    CASE str = "#000000"   -> <<"#", "0", "0", "0", "0", "0", "0">>
      [] str = "#FF0000"   -> <<"#", "F", "F", "0", "0", "0", "0">>
      [] str = "#00FF00"   -> <<"#", "0", "0", "F", "F", "0", "0">>
      [] str = "#00000080" -> <<"#", "0", "0", "0", "0", "0", "0", "8", "0">>

\* The shadows and styles a caller passes to set_style before drawing.
Shadows == {NoShadow, Shadow("#00000080", 3, 2, 4), Shadow("#00000080", 0, 5, 0)}
DrawStyles ==
    { [StyleDefault EXCEPT !.fill_color = f, !.stroke_color = s,
                           !.border_radius = r, !.shadow = sh] :
          f \in {None, "#FF0000"}, s \in {None, "#00FF00"}, r \in {0, 4},
          sh \in Shadows }

\* The (x, y, width, height) of the rectangles drawn; (cx, cy, radius) of circles.
Rects == {<<0, 0, 20, 10>>, <<5, 7, 8, 8>>}
Circles == {<<5, 5, 3>>}

\* Paint: style, colour, and the sigma of its blur mask filter doubled (0: none)
Paint(style, color, sigma2) == [style |-> style, color |-> color, sigma2 |-> sigma2]

\* Paint::default() has opaque black as its colour.
PaintDefaultColor == Black

\* make_fill_paint
MakeFillPaint(style) ==
    Paint("Fill",
          IF style.fill_color # None
            THEN ParseColor(ColorChars(style.fill_color))
            ELSE PaintDefaultColor,
          0)

\* The fill colour tried before the stroke colour.
StrokeColorFillFirst(style) ==
    IF style.fill_color # None THEN style.fill_color ELSE style.stroke_color

\* make_stroke_paint, lines 348-353: the colour string the stroke paint takes
StrokeColor(style) ==
    IF style.stroke_color # None THEN style.stroke_color ELSE style.fill_color

\* make_stroke_paint
MakeStrokePaint(style) ==
    Paint("Stroke",
          IF StrokeColor(style) # None
            THEN ParseColor(ColorChars(StrokeColor(style)))
            ELSE PaintDefaultColor,
          0)

\* Shadow::make_blur_filter: a blur of sigma blur_radius / 2 when radius > 0
MakeBlurFilter(shadow) == IF shadow.blur_radius > 0 THEN shadow.blur_radius ELSE 0

\* canvas.draw_rrect when radius > 0, else canvas.draw_rect
DrawRect(x, y, w, h, radius, paint) ==
    [shape |-> IF radius > 0 THEN "rrect" ELSE "rect",
     x |-> x, y |-> y, w |-> w, h |-> h,
     radius |-> IF radius > 0 THEN radius ELSE 0, paint |-> paint]

\* canvas.draw_circle
DrawCircle(cx, cy, radius, paint) ==
    [shape |-> "circle", x |-> cx, y |-> cy, w |-> 0, h |-> 0,
     radius |-> radius, paint |-> paint]

\* draw_shadow: the canvas call it makes
DrawShadow(x, y, w, h, shadow, border_radius) ==
    DrawRect(x + shadow.offset_x, y + shadow.offset_y, w, h, border_radius,
             Paint("Fill", ParseColor(ColorChars(shadow.color)),
                   MakeBlurFilter(shadow)))

\* The observers after a drawing operation.
ObserveDraw(op) ==
    /\ Observe(op, StyleDefault)
    /\ UNCHANGED <<current_style, current_font, state_stack, canvas_saves,
                   base_saves, surfaceVars, imageVars, fontVars, textVars,
                   colorVars>>

\* SkiaPainter::fill_rect
FillRect(x, y, w, h) ==
    /\ canvas_draws' =
         (IF current_style.shadow # NoShadow
            THEN <<DrawShadow(x, y, w, h, current_style.shadow,
                              current_style.border_radius)>>
            ELSE <<>>)
         \o <<DrawRect(x, y, w, h, current_style.border_radius,
                       MakeFillPaint(current_style))>>
    /\ ObserveDraw("fill_rect")

\* SkiaPainter::stroke_rect
StrokeRect(x, y, w, h) ==
    /\ canvas_draws' = <<DrawRect(x, y, w, h, current_style.border_radius,
                                  MakeStrokePaint(current_style))>>
    /\ ObserveDraw("stroke_rect")

\* SkiaPainter::stroke_circle
StrokeCircle(cx, cy, radius) ==
    /\ canvas_draws' = <<DrawCircle(cx, cy, radius, MakeStrokePaint(current_style))>>
    /\ ObserveDraw("stroke_circle")

InitDraw == canvas_draws = <<>>

\* A painter whose style is set and whose rectangles and circles are drawn.
NextDraw ==
    \/ \E style \in DrawStyles : SetStyle(style)
    \/ \E r \in Rects : FillRect(r[1], r[2], r[3], r[4])
    \/ \E r \in Rects : StrokeRect(r[1], r[2], r[3], r[4])
    \/ \E c \in Circles : StrokeCircle(c[1], c[2], c[3])

(***************************************************************************)
(*                    THE THREE CACHE LOCKS TOGETHER                       *)
(***************************************************************************)

\* A thread is inside none of the cache functions.
Quiet(c) == pc[c] = "idle" /\ tpc[c] = "idle" /\ spc[c] = "idle"

\* The text and primary typeface of the calls that reach get_emoji_typeface.
EmojiText == <<127881>>
EmojiPrimary == Typeface("Arial", 1)

\* What the font manager answers in these calls: the default typeface for
\* create_typeface(None), and an emoji typeface.
DefaultAnswer == Typeface("Noto Sans", 1)
EmojiAnswer == Typeface("Noto Color Emoji", 1)

\* The thread that loads images and the thread that clears the image cache;
\* both create typefaces and segment text.
Loaders == {"c1"}
Clearers == {"c2"}

\* A thread that is inside no call enters one of the functions that take a
\* cache lock.
EnterCall(c) ==
    /\ Quiet(c)
    /\ \/ c \in Loaders /\ CallLoad(c, "a.png", TRUE)
       \/ c \in Clearers /\ CallClear(c)
       \/ CallCreateTypeface(c, None)
       \/ CallSegment(c, EmojiText, EmojiPrimary)

\* A thread inside a call takes the call's next step.
Advance(c) ==
    \/ GetCache(c)
    \/ EnsureCache(c)
    \/ Lookup(c)
    \/ ReadFile(c)
    \/ Decode(c)
    \/ Store(c)
    \/ Clear(c)
    \/ LockTypefaceCache(c)
    \/ TypefaceLookup(c)
    \/ MatchTypeface(c, NoTypeface, DefaultAnswer, NoTypeface)
    \/ TypefaceStore(c)
    \/ LockEmojiCache(c)
    \/ EmojiCheck(c)
    \/ EmojiLookup(c, EmojiAnswer)
    \/ EmojiStore(c)
    \/ SegmentSlowPath(c, NoTypeface)

\* Threads calling load_image, clear_image_cache, create_typeface and
\* segment_text_by_font (which calls get_emoji_typeface) in any order.
NextLocks == \E c \in Callers : EnterCall(c) \/ Advance(c)

(***************************************************************************)
(*                            SPECIFICATIONS                               *)
(***************************************************************************)

Init ==
    /\ InitPainter /\ InitSurface /\ InitImage
    /\ InitTypeface /\ InitText /\ InitColor /\ InitDraw

SpecPainter == Init /\ [][NextPainter]_vars

SpecPainterDrift == Init /\ [][NextPainterDrift]_vars

SpecSurface == Init /\ [][NextSurface]_vars

SpecSurfaceCurrent == Init /\ [][NextSurfaceCurrent]_vars

SpecSurfaceThreads == Init /\ [][NextSurfaceThreads]_vars

SpecImage == Init /\ [][NextImage]_vars

SpecImageSeq == Init /\ [][NextImageSeq]_vars

SpecTypeface == Init /\ [][NextTypeface]_vars

SpecTypefaceSeq == Init /\ [][NextTypefaceSeq]_vars

SpecText == Init /\ [][NextText]_vars

SpecTextSeq == Init /\ [][NextTextSeq]_vars

SpecColor == Init /\ [][NextColor]_vars

SpecColorAny == Init /\ [][NextColorAny]_vars

SpecLocks == Init /\ [][NextLocks]_vars

SpecDraw == Init /\ [][NextDraw]_vars

(***************************************************************************)
(*                               PROPERTIES                                *)
(***************************************************************************)

\* C1: after save(); set_style(S2); restore() the current style and the current
\* font are the ones held immediately before the save(), whatever S2 was.
C1_SaveSetStyleRestore ==
    seq_phase = 3 =>
        /\ current_style = seq_held.style
        /\ current_font = seq_held.font

\* C1 witness: the sequence has run from a non-default style S1, with an S2 of
\* another family and size, so that set_style rebuilt the font in between.
C1_Witness ==
    /\ seq_phase = 3
    /\ seq_held.style # StyleDefault
    /\ seq_held.s2.font_family # seq_held.style.font_family
    /\ FontChanged(seq_held.s2, seq_held.style)
    /\ current_style = seq_held.style

\* C2: for a painter created on a canvas with no outstanding saves, the length
\* of state_stack equals the number of native saves outstanding; a save adds one
\* to both, a restore with a non-empty stack removes one from both, and a
\* restore with an empty stack leaves both depths, the style and the font alone.
C2_StackDepthsInStep ==
    /\ [](base_saves = 0 => Len(state_stack) = canvas_saves)
    /\ [][ base_saves' = 0 /\ base_saves = 0 =>
            /\ last_op' = "save" =>
                  /\ Len(state_stack') = Len(state_stack) + 1
                  /\ canvas_saves' = canvas_saves + 1
            /\ last_op' = "restore" /\ Len(state_stack) > 0 =>
                  /\ Len(state_stack') = Len(state_stack) - 1
                  /\ canvas_saves' = canvas_saves - 1
            /\ last_op' = "restore" /\ Len(state_stack) = 0 =>
                  /\ Len(state_stack') = 0
                  /\ canvas_saves' = canvas_saves
                  /\ current_style' = current_style
                  /\ current_font' = current_font ]_vars

\* C2 witness: on such a painter a restore has popped one of two saved states.
C2_Witness ==
    /\ base_saves = 0
    /\ last_op = "restore"
    /\ Len(state_stack) = 1
    /\ canvas_saves = 1
    /\ current_style # StyleDefault

\* C3: when a GPU surface that holds a context is dropped, the next creation
\* of a GPU surface on that thread takes that surface's context out of the
\* thread's cell and constructs no new context; this for every surface dropped
\* since the thread's previous creation.
C3_NextCreationReusesDropped ==
    [][ \A t \in Threads :
          (ret'.op = "from_gl_context" /\ ret'.thread = t) =>
              \A c \in dropped[t] :
                  /\ gl_context[t] = c
                  /\ gl_context'[t] = NoContext
                  /\ ctx_made'[t] = ctx_made[t]
                  /\ ret'.res = "Ok" => surfaces'[ret'.sid].context = c
      ]_vars

\* C4: while the platform graphics context of a thread stays available, at most
\* one GPU context is ever constructed on that thread.
C4_ConstructedAtMostOnce ==
    \A t \in Threads : platform[t] = "current" => ctx_made[t] <= 1

\* C5: resize on a surface created by from_gl_context never returns
\* NoDirectContext and leaves the surface's context and the thread's cell as
\* they were; when it succeeds, width and height are the values passed, and
\* get_rgba_data returns width * height * 4 bytes of the surface's dimensions.
C5_ResizeKeepsContext ==
    /\ [][ (ret'.op = "resize" /\ surfaces[ret'.sid].inner.kind = "gpu") =>
            /\ ret'.res # "NoDirectContext"
            /\ surfaces'[ret'.sid].context = surfaces[ret'.sid].context
            /\ surfaces'[ret'.sid].context # NoContext
            /\ gl_context' = gl_context
            /\ ret'.res = "Ok" =>
                  /\ surfaces'[ret'.sid].width = ret'.w
                  /\ surfaces'[ret'.sid].height = ret'.h
                  /\ surfaces'[ret'.sid].inner = RenderTarget("gpu", ret'.w, ret'.h)
         ]_vars
    /\ [](ret.op = "get_rgba_data" /\ ret.res = "Ok" =>
            ret.bytes = surfaces[ret.sid].width * surfaces[ret.sid].height * 4)

\* C5 witness: a GPU surface was resized to 2 x 3 and still holds its context.
C5_Witness ==
    /\ ret.op = "resize"
    /\ ret.res = "Ok"
    /\ surfaces[ret.sid].width = 2
    /\ surfaces[ret.sid].height = 3
    /\ surfaces[ret.sid].context # NoContext

\* C6: whenever from_gl_context, resize, save_png, get_rgba_data or get_png_data
\* returns an error, the thread-local cells, every surface's render target,
\* width and height, and the files on disk are what they were before the call.
C6_ErrorsLeaveNoTrace ==
    [][ (ret'.op \in {"from_gl_context", "resize", "save_png", "get_rgba_data",
                      "get_png_data"}
           /\ ret'.res # "Ok") =>
            /\ gl_context' = gl_context
            /\ surfaces' = surfaces
            /\ disk' = disk
      ]_vars

\* C7: a raster surface holds no context in any state; its creation,
\* flush_and_submit, readback and drop leave the thread-local cells and the
\* contexts alone; resize on it returns NoDirectContext and leaves it as it was.
C7_RasterNeverTouchesContext ==
    /\ [](\A s \in SurfIds :
            surfaces[s].inner.kind = "raster" => surfaces[s].context = NoContext)
    /\ [][ ret'.op = "new_raster" =>
            /\ gl_context' = gl_context
            /\ ctx_live' = ctx_live
            /\ ctx_made' = ctx_made ]_vars
    /\ [][ (ret'.op \in {"flush_and_submit", "get_rgba_data", "get_png_data",
                         "save_png", "drop"}
              /\ surfaces[ret'.sid].inner.kind = "raster") =>
            /\ gl_context' = gl_context
            /\ ctx_live' = ctx_live
            /\ ctx_made' = ctx_made ]_vars
    /\ [][ (ret'.op = "resize" /\ surfaces[ret'.sid].inner.kind = "raster") =>
            /\ ret'.res = "NoDirectContext"
            /\ surfaces' = surfaces
            /\ gl_context' = gl_context ]_vars

\* C7 witness: resize was refused on a raster surface while the thread's cell
\* held an idle context.
C7_Witness ==
    /\ ret.op = "resize"
    /\ ret.res = "NoDirectContext"
    /\ surfaces[ret.sid].inner.kind = "raster"
    /\ gl_context[ret.thread] # NoContext

\* The contexts of thread t that exist and that no live surface holds.
IdleContexts(t) ==
    {c \in ctx_live :
        /\ c.thread = t
        /\ \A s \in SurfIds : surfaces[s].context # c}

\* C8: with threads creating, resizing and dropping GPU surfaces in any
\* interleaving, each thread retains at most one idle context, and a context is
\* only held by a surface of, or stored in the cell of, the thread that made it.
C8_ContextsStayOnTheirThread ==
    /\ \A t \in Threads : Cardinality(IdleContexts(t)) <= 1
    /\ \A t \in Threads :
          gl_context[t] # NoContext => gl_context[t].thread = t
    /\ \A s \in SurfIds :
          surfaces[s].context # NoContext =>
              surfaces[s].context.thread = surfaces[s].thread

\* C8 witness: both threads have constructed contexts, one thread holds a
\* context in a live surface and an idle one in its cell, the other an idle one.
C8_Witness ==
    /\ gl_context["t1"] # NoContext
    /\ gl_context["t2"] # NoContext
    /\ \E s \in SurfIds :
          /\ surfaces[s].thread = "t1"
          /\ surfaces[s].context # NoContext
          /\ surfaces[s].context # gl_context["t1"]

\* A load_image call of caller c returns in this step.
LoadReturns(c) == call[c].op = "load" /\ pc[c] # "idle" /\ pc'[c] = "idle"

\* C9 as stated: once load_image(path, true) has succeeded, every load_image(path,
\* true) that starts later, with no clear_image_cache in between, returns the
\* image cached by that first call, without reading the file.
C9_LaterLoadsReturnFirstImage ==
    [][ \A c \in Callers :
          (LoadReturns(c) /\ call[c].expect # NoImage) =>
              /\ result'[c].res = "Ok"
              /\ result'[c].image = call[c].expect
              /\ call[c].bytes = Unread
      ]_vars

\* C9 amended: the same, for the later loads between whose return and the first
\* call's success no load that was already running has inserted into the cache.
C9_LaterLoadsReturnFirstImageUnlessOverwritten ==
    [][ \A c \in Callers :
          (LoadReturns(c) /\ call[c].expect # NoImage
             /\ ~overwritten'[call[c].path]) =>
              /\ result'[c].res = "Ok"
              /\ result'[c].image = call[c].expect
              /\ call[c].bytes = Unread
      ]_vars

\* C9 witness: a later load returned the first call's image from the cache,
\* unread, although the file on disk now holds something else.
C9_Witness ==
    \E c \in Callers :
        /\ pc[c] = "idle"
        /\ call[c].op = "load"
        /\ call[c].expect # NoImage
        /\ ~overwritten[call[c].path]
        /\ call[c].bytes = Unread
        /\ result[c].res = "Ok"
        /\ result[c].image = call[c].expect
        /\ files[call[c].path] \notin {result[c].image.pixels, "missing", "corrupt"}

\* C10: with a single caller, for every path cached before clear_image_cache(),
\* the next load_image(path, true) misses the cache, reads the file as it is
\* now, and returns and caches the image decoded from what it read.
C10_ClearThenLoadRereads ==
    [][ \A c \in Callers :
          (call[c].op = "load" /\ call[c].after_clear) =>
              /\ (pc[c] = "lookup_cs" /\ pc'[c] # "lookup_cs") => pc'[c] = "read"
              /\ (pc[c] = "read" /\ pc'[c] = "decode") =>
                    call'[c].bytes = files[call[c].path]
              /\ (LoadReturns(c) /\ result'[c].res = "Ok") =>
                    /\ call[c].bytes \in {"imgA", "imgB"}
                    /\ result'[c].image.pixels = call[c].bytes
                    /\ image_cache'.map[call[c].path] = result'[c].image
      ]_vars

\* C10 witness: the first load after a clear returned and cached the image of a
\* file that was changed on disk.
C10_Witness ==
    \E c \in Callers :
        /\ pc[c] = "idle"
        /\ call[c].op = "load"
        /\ call[c].after_clear
        /\ writes > 0
        /\ result[c].res = "Ok"
        /\ result[c].image = Decoded("imgB")
        /\ image_cache.map[call[c].path] = Decoded("imgB")

\* A load_image or measure_image call of caller c returns in this step.
Returns(c) ==
    /\ call[c].op \in {"load", "measure"}
    /\ pc[c] # "idle"
    /\ pc'[c] = "idle"

\* Caller c takes a step of a load_image or measure_image call.
Steps(c) == pc'[c] # pc[c] /\ call'[c].op \in {"load", "measure"}

\* C11: load_image(path, false) never consults or fills the cache: it returns
\* only from the file read or the decode, an image it returns is the one decoded
\* from the bytes it read, and none of its steps changes the cached paths or
\* their images, whether it succeeds or fails.
C11_UncachedLoadBypassesCache ==
    [][ \A c \in Callers :
          (Steps(c) /\ call'[c].op = "load" /\ ~call'[c].asked) =>
              /\ image_cache'.map = image_cache.map
              /\ pc'[c] \notin {"lookup", "lookup_cs", "store", "store_cs"}
              /\ Returns(c) =>
                    /\ pc[c] \in {"read", "decode"}
                    /\ result'[c].res = "Ok" =>
                          /\ call[c].bytes \in {"imgA", "imgB"}
                          /\ result'[c].image.pixels = call[c].bytes
      ]_vars

\* C11 witness: an uncached load returned the file's image while the cache
\* kept a different image for the same path.
C11_Witness ==
    \E c \in Callers :
        /\ pc[c] = "idle"
        /\ call[c].op = "load"
        /\ ~call[c].asked
        /\ result[c].res = "Ok"
        /\ image_cache.map[call[c].path] # NoImage
        /\ image_cache.map[call[c].path] # result[c].image

\* load_image(path, use_cache) run by a single caller from the given cache and
\* file content: what it returns and the cache it leaves.
LoadImageFrom(cache, content, path, use_cache) ==
    LET ensured == [cache EXCEPT !.init = TRUE]
        hit == IF use_cache THEN CacheGet(ensured, path) ELSE NoImage
    IN IF hit # NoImage
         THEN [ret |-> Finished("load", "Ok", hit, path), cache |-> ensured]
       ELSE IF FsRead(content) # NoIoError
         THEN [ret |-> ReadError(path, FsRead(content)), cache |-> ensured]
       ELSE IF content = "corrupt"
         THEN [ret |-> DecodeError(path), cache |-> ensured]
       ELSE [ret |-> Finished("load", "Ok", Decoded(content), path),
             cache |-> IF use_cache
                         THEN CacheInsert(ensured, path, Decoded(content))
                         ELSE ensured]

\* C12: from the same cache and file, measure_image(path, use_cache) returns
\* the width and height of the image load_image(path, use_cache) returns, fails
\* exactly when and as that load fails, and leaves the cache that load leaves.
\* The file is what the call read, or what it holds now when nothing was read.
C12_MeasureIsLoadPlusDimensions ==
    [][ \A c \in Callers :
          Returns(c) =>
              LET content == IF call[c].bytes = Unread
                               THEN files[call[c].path] ELSE call[c].bytes
                  r == LoadImageFrom(image_cache, content,
                                     call[c].path, call[c].asked)
              IN /\ result'[c].res = r.ret.res
                 /\ result'[c].path = r.ret.path
                 /\ result'[c].source = r.ret.source
                 /\ image_cache' = r.cache
                 /\ call[c].op = "load" => result'[c].image = r.ret.image
                 /\ call[c].op = "measure" =>
                       result'[c].dims = <<r.ret.image.width, r.ret.image.height>>
      ]_vars

\* C12 witness: measuring with use_cache = true decoded the file and left its
\* image in the cache.
C12_Witness ==
    \E c \in Callers :
        /\ pc[c] = "idle"
        /\ call[c].op = "measure"
        /\ call[c].asked
        /\ call[c].bytes = "imgB"
        /\ result[c].res = "Ok"
        /\ result[c].dims = <<4, 5>>
        /\ image_cache.map[call[c].path] = Decoded("imgB")

\* C13: a load_image that fails leaves the cache as it is and tells the cause:
\* an unreadable file gives the read error with the path and the I/O error, a
\* file read but not decodable gives the decode error with the path; an entry is
\* inserted only by the step that returns Ok.
C13_LoadErrors ==
    [][ \A c \in Callers :
          /\ (Returns(c) /\ result'[c].res # "Ok") =>
                /\ image_cache' = image_cache
                /\ result'[c].path = call[c].path
                /\ result'[c].image = NoImage
                /\ \/ /\ pc[c] = "read"
                      /\ files[call[c].path] = "missing"
                      /\ result'[c].res = "ImageReadError"
                      /\ result'[c].source = "NotFound"
                   \/ /\ pc[c] = "decode"
                      /\ call[c].bytes = "corrupt"
                      /\ result'[c].res = "ImageDecodeError"
                      /\ result'[c].source = NoIoError
          /\ (Steps(c) /\ pc[c] = "read" /\ files[call[c].path] = "missing") =>
                Returns(c) /\ result'[c].res = "ImageReadError"
          /\ (Steps(c) /\ pc[c] = "decode" /\ call[c].bytes = "corrupt") =>
                Returns(c) /\ result'[c].res = "ImageDecodeError"
          /\ (Steps(c) /\ image_cache'.map # image_cache.map) =>
                Returns(c) /\ result'[c].res = "Ok"
      ]_vars

\* C13 witness: a cached load of a file that does not decode returned the
\* decode error and the cache holds no entry for the path.
C13_Witness ==
    \E c \in Callers :
        /\ pc[c] = "idle"
        /\ call[c].op = "load"
        /\ call[c].asked
        /\ result[c].res = "ImageDecodeError"
        /\ result[c].path = call[c].path
        /\ image_cache.init
        /\ image_cache.map[call[c].path] = NoImage

\* Caller c returns from create_typeface in this step.
TypefaceReturns(c) == tpc[c] # "idle" /\ tpc'[c] = "idle"

\* C14: once create_typeface(f) has returned a typeface, every create_typeface(f)
\* that begins afterwards returns that same typeface, and does so without
\* running the font matching.  Violated: two callers miss together, the first
\* stores and returns its typeface, the second then replaces the entry.
C14_LaterCallsReturnFirstTypeface ==
    [][\A c \in Callers :
         (TypefaceReturns(c) /\ tcall[c].expect # NoTypeface)
           => /\ tresult'[c] = tcall[c].expect
              /\ ~tcall'[c].matched]_vars

\* C15: a key that is present in the typeface cache stays present with the
\* typeface it has.  Violated: map.insert replaces the entry of a caller that
\* stored first.
C15_EntriesNeverReplaced ==
    [][\A k \in TypefaceKeys :
         TypefaceGet(typeface_cache, k) # NoTypeface
           => TypefaceGet(typeface_cache', k) = TypefaceGet(typeface_cache, k)]_vars

\* C16: get_emoji_typeface performs the emoji font lookup at most once in the
\* process, whatever the number and interleaving of segment_text_by_font calls.
\* Violated: two threads find the cache unset before either stores its result.
C16_EmojiLookupAtMostOnce == emoji_lookups <= 1

\* Caller c returns from segment_text_by_font in this step.
SegmentReturns(c) == spc[c] # "idle" /\ spc'[c] = "idle"

\* The typeface used when no emoji typeface applies: the primary typeface, or
\* the engine's legacy typeface when none was given.
ExpectedDefault(primary) ==
    IF primary # NoTypeface THEN primary ELSE Typeface("legacy", 1)

\* C17: for every non-empty text without emoji code points the call returns
\* exactly one segment, holding the whole text and the primary typeface (the
\* default one when none was given), and does not resolve the emoji typeface.
\* Violated: with no primary typeface and no legacy typeface the unwrap panics.
C17_NoEmojiOneSegment ==
    [][\A c \in Callers :
         (/\ SegmentReturns(c)
          /\ scall[c].text # <<>>
          /\ ~ContainsEmoji(scall[c].text))
           => /\ sresult'[c].res = "Ok"
              /\ sresult'[c].segments =
                   <<TextSegment(scall[c].text,
                                 ExpectedDefault(scall[c].primary))>>
              /\ ~scall'[c].resolved
              /\ emoji_lookups' = emoji_lookups
              /\ emoji_cache' = emoji_cache]_vars

RECURSIVE Concat(_)
\* The texts of the segments one after the other.
Concat(segments) ==
    IF segments = <<>> THEN <<>>
    ELSE Head(segments).text \o Concat(Tail(segments))

\* The number of maximal runs of equally classified characters in text.
Runs(text) ==
    Cardinality({i \in 1..Len(text) :
                   i = 1 \/ IsLikelyEmoji(text[i]) # IsLikelyEmoji(text[i - 1])})

\* C18: the segments a call returns are the maximal runs of characters with the
\* same emoji classification, in order: no segment is empty, each segment is of
\* one class, adjacent segments differ in class, the segment texts concatenate
\* to the input; the empty text gives no segment and a text of the form
\* non-emoji, emoji, non-emoji gives three.
C18_SegmentsAreMaximalRuns ==
    [][\A c \in Callers :
         (SegmentReturns(c) /\ sresult'[c].res = "Ok")
           => LET segs == sresult'[c].segments
                  text == scall[c].text
              IN /\ \A i \in 1..Len(segs) :
                      /\ segs[i].text # <<>>
                      /\ \A j \in 1..Len(segs[i].text) :
                            IsLikelyEmoji(segs[i].text[j])
                              = IsLikelyEmoji(segs[i].text[1])
                 /\ \A i \in 1..(Len(segs) - 1) :
                      IsLikelyEmoji(segs[i].text[1])
                        # IsLikelyEmoji(segs[i + 1].text[1])
                 /\ Concat(segs) = text
                 /\ Len(segs) = Runs(text)
                 /\ (text = <<>> => segs = <<>>)
                 /\ (text = <<65, 127881, 10084>> => Len(segs) = 3)]_vars

\* A call on non-emoji, emoji, non-emoji has returned its three segments.
C18_Witness ==
    \E c \in Callers :
        /\ spc[c] = "idle"
        /\ sresult[c].res = "Ok"
        /\ Len(scall[c].text) = 3
        /\ ~IsLikelyEmoji(scall[c].text[1])
        /\ IsLikelyEmoji(scall[c].text[2])
        /\ ~IsLikelyEmoji(scall[c].text[3])
        /\ Len(sresult[c].segments) = 3

\* C19: in the result for a text that contains emoji, every emoji segment
\* carries the emoji typeface the cache held when the call had it locked, or
\* the default/primary typeface when the cache said none was found; every
\* non-emoji segment carries the default/primary typeface.
C19_SegmentTypefaces ==
    [][\A c \in Callers :
         (/\ SegmentReturns(c)
          /\ sresult'[c].res = "Ok"
          /\ ContainsEmoji(scall[c].text))
           => LET segs == sresult'[c].segments
                  default_typeface == ExpectedDefault(scall[c].primary)
              IN \A i \in 1..Len(segs) :
                   segs[i].typeface =
                     IF IsLikelyEmoji(segs[i].text[1])
                          /\ scall[c].consulted # NoTypeface
                       THEN scall[c].consulted
                       ELSE default_typeface]_vars

\* A call returned a non-emoji segment with the default typeface followed by
\* an emoji segment with the emoji typeface the cache holds.
C19_Witness ==
    \E c \in Callers :
        /\ spc[c] = "idle"
        /\ sresult[c].res = "Ok"
        /\ Len(sresult[c].segments) = 3
        /\ emoji_cache.set
        /\ emoji_cache.tf # NoTypeface
        /\ sresult[c].segments[2].typeface = emoji_cache.tf
        /\ sresult[c].segments[1].typeface = ExpectedDefault(scall[c].primary)

\* The digits of a colour string: its characters other than '#'.
HexPart(str) == SelectSeq(str, LAMBDA ch : ch # "#")

\* The value of the two digits of h that start at position i.
Pair(h, i) == 16 * HexValue(h[i]) + HexValue(h[i + 1])

\* C20: for every string h of hexadecimal digits parse_color("#" + h) equals
\* parse_color(h); six digits give the parsed red, green and blue with alpha
\* 255, eight digits give in addition the alpha of the last two digits, and
\* any other length gives opaque black.
C20_HexColors ==
    color_out # NotParsed
      => LET h == HexPart(color_str) IN
         /\ color_out = ParseColor(h)
         /\ color_out = ParseColor(<<"#">> \o h)
         /\ Len(h) = 6
              => color_out = Color(255, Pair(h, 1), Pair(h, 3), Pair(h, 5))
         /\ Len(h) = 8
              => color_out = Color(Pair(h, 7), Pair(h, 1), Pair(h, 3), Pair(h, 5))
         /\ Len(h) \notin {6, 8} => color_out = Color(255, 0, 0, 0)

\* parse_color has answered "#" followed by eight digits with a colour whose
\* alpha is not 255 and whose red is not 0.
C20_Witness ==
    /\ color_out.res = "Ok"
    /\ Hashes(color_str) = 1
    /\ Len(HexPart(color_str)) = 8
    /\ color_out.a = 12
    /\ color_out.r = 207

\* The string has only one-byte characters, is 6 or 8 long, and one of its
\* two-character components holds a character that is no hexadecimal digit.
HasInvalidComponent(h) ==
    /\ Len(h) \in {6, 8}
    /\ \A i \in 1..Len(h) : Utf8Len(h[i]) = 1
    /\ \E i \in 1..Len(h) : ~IsHexDigit(h[i])

\* C21: for every string of length 6 or 8 (after the optional '#') with a
\* component that is not valid hexadecimal, parse_color returns black.
\* Violated: only the invalid component becomes 0, the others keep their value.
C21_InvalidComponentGivesBlack ==
    (color_out # NotParsed /\ HasInvalidComponent(HexPart(color_str)))
      => color_out = Black

\* C29: parse_color returns a colour for every string and never aborts, also
\* when the string holds multi-byte characters and is 6 or 8 bytes long.
\* Violated: a byte offset 2, 4 or 6 inside a character makes the slice panic.
C29_ParseColorNeverAborts == color_out.res # "panic"

\* The canvas call that draws the shape of the last drawing operation.
ShapeDraw == canvas_draws[Len(canvas_draws)]

C23_ShadowDrawnOnceBeforeShape ==
    last_op \in {"fill_rect", "stroke_rect"}
      => IF current_style.shadow # NoShadow
           THEN /\ Len(canvas_draws) = 2
                /\ canvas_draws[1].x = ShapeDraw.x + current_style.shadow.offset_x
                /\ canvas_draws[1].y = ShapeDraw.y + current_style.shadow.offset_y
                /\ canvas_draws[1].w = ShapeDraw.w
                /\ canvas_draws[1].h = ShapeDraw.h
                /\ canvas_draws[1].radius = ShapeDraw.radius
                /\ canvas_draws[1].shape = ShapeDraw.shape
           ELSE Len(canvas_draws) = 1

\* C25: after any sequence of set_style, save and restore the current font is
\* the font derived from the current style: same family, and a size within
\* 0.001 of the style's font_size.  Violated: set_style compares the new size
\* with the previous style's size, so two changes below the threshold add up
\* and leave a font more than 0.001 away from the style.
C25_FontDerivedFromStyle ==
    /\ current_font.family = current_style.font_family
    /\ Abs(current_font.size - current_style.font_size) <= FontEps

\* C30: every painter bound to a surface has a style stack as deep as the
\* canvas's outstanding native saves, also a painter constructed on a surface
\* whose canvas still has saves of an earlier painter.  Violated: a new painter
\* starts with an empty style stack whatever the canvas's save count is.
C30_StackAsDeepAsOutstandingSaves == Len(state_stack) = canvas_saves

\* The live surfaces that hold context c, and the cells that store it.
Holders(c) == {s \in SurfIds : surfaces[s] # NoSurface /\ surfaces[s].context = c}
Slots(c) == {t \in Threads : gl_context[t] = c}

\* The contexts constructed on thread t so far.
Constructed(t) == {[thread |-> t, n |-> n] : n \in 1..ctx_made[t]}

\* C26: no GPU context is destroyed by surface creation, resize or drop: every
\* context constructed on a thread is held by a live surface of that thread or
\* stored in that thread's cell.  Violated: a failed wrap drops the context
\* taken from the cell, and with two GPU surfaces alive the second drop
\* overwrites the context the first drop stored.
C26_NoContextDestroyed ==
    \A t \in Threads : \A c \in Constructed(t) :
        \/ gl_context[t] = c
        \/ \E s \in Holders(c) : surfaces[s].thread = t

\* C28: a GPU context has exactly one owner: it is never held by two live
\* surfaces, never both held by a live surface and stored in a cell, and a
\* context that exists is with one surface or in one cell.
C28_SingleOwner ==
    \A t \in Threads : \A c \in Constructed(t) :
        /\ Cardinality(Holders(c)) + Cardinality(Slots(c)) <= 1
        /\ c \in ctx_live => Cardinality(Holders(c)) + Cardinality(Slots(c)) = 1

\* Two GPU surfaces of one thread are alive, each with its own context, after a
\* context had been taken out of the cell.
C28_Witness ==
    \E s1, s2 \in SurfIds :
        /\ s1 # s2
        /\ surfaces[s1] # NoSurface /\ surfaces[s2] # NoSurface
        /\ surfaces[s1].thread = surfaces[s2].thread
        /\ surfaces[s1].context # NoContext
        /\ surfaces[s2].context # NoContext
        /\ surfaces[s1].context # surfaces[s2].context
        /\ gl_context[surfaces[s1].thread] = NoContext

\* C27: with concurrent callers, a cached load_image that starts after a
\* clear_image_cache() has returned never returns an image that was read from
\* the file before that clear.  Violated: a load that had read the file when
\* the clear ran inserts its image afterwards, and the next load hits it.
C27_NoImageFromBeforeClear ==
    [][ \A c \in Callers :
          (LoadReturns(c) /\ pc[c] = "lookup_cs") => ~stale[call[c].path]
      ]_vars


\* The locks thread c holds.
LocksHeld(c) ==
    {l \in {"image", "typeface", "emoji"} :
        \/ l = "image" /\ image_lock = c
        \/ l = "typeface" /\ typeface_lock = c
        \/ l = "emoji" /\ emoji_lock = c}

\* Thread c is about to read or decode a file or to ask the font manager.
OutsideWork(c) ==
    \/ pc[c] \in {"read", "decode"}
    \/ tpc[c] = "match"
    \/ spc[c] = "lookup"

\* C24: in load_image, clear_image_cache, create_typeface and
\* get_emoji_typeface a cache lock is held only inside the steps that work on
\* the locked cache (ensure_cache's initialisation, the lookup, the insert, the
\* clear); a thread that reads or decodes a file or asks the font manager holds
\* no lock; a thread about to lock a cache does not hold that lock; and a
\* thread inside a call can take a step, or another thread that holds a lock
\* can: no execution deadlocks.
C24_LocksHeldOnlyInCriticalSections ==
    \A c \in Callers :
        /\ image_lock = c => pc[c] \in {"ensure_cs", "lookup_cs", "store_cs", "clear_cs"}
        /\ typeface_lock = c => tpc[c] \in {"lookup_cs", "store_cs"}
        /\ emoji_lock = c => spc[c] \in {"check_cs", "store_cs"}
        /\ OutsideWork(c) => LocksHeld(c) = {}
        /\ pc[c] \in {"ensure", "lookup", "store", "clear"} => image_lock # c
        /\ tpc[c] \in {"lookup", "store"} => typeface_lock # c
        /\ spc[c] \in {"check", "store"} => emoji_lock # c
        /\ ~Quiet(c) =>
              \/ ENABLED Advance(c)
              \/ \E d \in Callers \ {c} : LocksHeld(d) # {} /\ ENABLED Advance(d)

\* C24 witness: a load has read its file and is decoding it, holding no lock,
\* while the other thread holds the image cache lock inside clear_image_cache.
C24_Witness ==
    \E c \in Callers : \E d \in Callers \ {c} :
        /\ pc[c] = "decode"
        /\ call[c].bytes # Unread
        /\ LocksHeld(c) = {}
        /\ image_lock = d
        /\ pc[d] = "clear_cs"
====
